---- MODULE Spec2Model ----
(***************************************************************************)
(* A model of the learning backend: the LearningSession and                *)
(* SpacedRepetitionCard entities, the learning use cases that drive them   *)
(* through the repositories, and the background jobs on the same rows.     *)
(*                                                                         *)
(* Time is a clock of whole minutes.  Optional values (Python None) are    *)
(* the sentinels NoQuestion, NoLimit and NoTime.  Ease factors are kept in *)
(* hundredths (2.5 is 250), so every ease delta of the code is an integer. *)
(***************************************************************************)
EXTENDS Integers, Sequences, FiniteSets, TLC

VARIABLES
    now,        \* datetime.now(), in minutes
    last,       \* the last operation applied and how it ended
    session,    \* one LearningSession entity (entity-level specification)
    completions,\* the operations that moved `session` into status completed, in order
    card,       \* one SpacedRepetitionCard entity (entity-level specification)
    reviewsDone,\* how many reviews this behaviour has applied through the review operations
    sessions,   \* the rows of LearningSessionModel, in insertion order
    cards,      \* the rows of SpacedRepetitionCardModel, in insertion order
    progress,   \* the progress rows of user u1 (facet f1 and overall)
    events,     \* how many question_answered LearningEvent rows exist
    procs,      \* the requests and job runs in flight (concurrent specifications)
    users,      \* the rows of UserModel: each user's status
    tokens,     \* the JWTs issued so far
    cache,      \* the cache service: key (row id) -> cached row
    requests,   \* RateLimitMiddleware.requests: client ip -> request times
    unlocked,   \* the stored UserProgress of u1, its achievements and unlock events
    hints,      \* the hint_requested LearningEvent rows
    bus,        \* the event bus: subscriber runs, the job queue, what publish returned
    jobRows,    \* the rows the background jobs read and write
    questionRows,\* the rows of QuestionModel, by external_id
    hierarchy,  \* the rows of TopicModel, SubtopicModel, LeafModel and FacetModel
    memory      \* MemoryCache._cache: the entries in insertion order

(***************************************************************************)
(* Bounds of the model.                                                    *)
(***************************************************************************)
MaxTime == 45
TickMinutes == 15
MaxAnswered == 2
MaxDays == 16
MaxReviews == 3

(***************************************************************************)
(* Program constants.                                                      *)
(***************************************************************************)
IdleExpiryMinutes == 30
MinutesPerDay == 1440
MinEase == 130
MaxEase == 500
DefaultEase == 250
OverdueJobDays == 7
OverdueJobEasePenalty == 20

Questions == {"q1", "q2"}
NoQuestion == "none"
NoLimit == 0
NoTime == -1
QuestionLimits == {NoLimit, 1, 2}
TimeLimits == {NoLimit, 20}
QuestionLists == {<<"q1">>, <<"q2">>, <<"q1", "q2">>, <<"q2", "q1">>}

(***************************************************************************)
(* Sequence helpers (Python list membership, list.remove).                 *)
(***************************************************************************)
InSeq(x, sq) == \E i \in 1..Len(sq) : sq[i] = x

RECURSIVE RemoveFirst(_, _)
RemoveFirst(x, sq) ==
    IF sq = <<>> THEN <<>>
    ELSE IF Head(sq) = x THEN Tail(sq)
    ELSE <<Head(sq)>> \o RemoveFirst(x, Tail(sq))

(***************************************************************************)
(* LearningSession entity.  Every method is an operator from the entity    *)
(* (and the clock) to an outcome: the exception raised ("none" when the    *)
(* call returns) and the entity as the call leaves it.                     *)
(***************************************************************************)
Outcome(err, s) == [err |-> err, s |-> s]

NewSession(user, facet, qlimit, tlimit, t) ==
    [ user_id |-> user,
      facet_id |-> facet,
      status |-> "active",
      started_at |-> t,
      ended_at |-> NoTime,
      last_activity_at |-> t,
      question_limit |-> qlimit,
      time_limit_minutes |-> tlimit,
      question_queue |-> <<>>,
      answered_questions |-> <<>>,
      current_question_id |-> NoQuestion,
      answered_count |-> 0,
      correct_answers |-> 0 ]

is_active(s) == s.status = "active"

is_expired(s, t) ==
    IF s.status # "active" THEN FALSE
    ELSE t > s.last_activity_at + IdleExpiryMinutes

has_time_limit_exceeded(s, t) ==
    IF s.time_limit_minutes = NoLimit THEN FALSE
    ELSE (t - s.started_at) > s.time_limit_minutes

has_question_limit_reached(s) ==
    IF s.question_limit = NoLimit THEN FALSE
    ELSE Len(s.answered_questions) >= s.question_limit

should_complete(s, t) ==
    \/ has_time_limit_exceeded(s, t)
    \/ has_question_limit_reached(s)
    \/ (Len(s.question_queue) = 0 /\ s.current_question_id = NoQuestion)

start_question(s, q, t) ==
    IF ~is_active(s) THEN Outcome("InvalidStateTransition", s)
    ELSE IF is_expired(s, t) THEN Outcome("SessionExpired", s)
    ELSE IF s.current_question_id # NoQuestion THEN Outcome("EntityValidation", s)
    ELSE Outcome("none", [s EXCEPT !.current_question_id = q,
                                   !.last_activity_at = t])

resume(s, t) ==
    IF s.status # "paused" THEN Outcome("InvalidStateTransition", s)
    ELSE Outcome("none", [s EXCEPT !.status = "active", !.last_activity_at = t])

complete_unguarded(s, t) ==
    Outcome("none", [s EXCEPT !.status = "completed", !.ended_at = t])

complete(s, t) ==
    IF s.status \in {"completed", "abandoned"}
    THEN Outcome("InvalidStateTransition", s)
    ELSE Outcome("none", [s EXCEPT !.status = "completed", !.ended_at = t])

abandon(s, t) ==
    IF s.status \in {"completed", "abandoned"}
    THEN Outcome("InvalidStateTransition", s)
    ELSE Outcome("none", [s EXCEPT !.status = "abandoned", !.ended_at = t])

pause(s, t) ==
    IF s.status # "active" THEN Outcome("InvalidStateTransition", s)
    ELSE Outcome("none", [s EXCEPT !.status = "paused", !.last_activity_at = t])

\* answer_question up to the completion check: metrics, queue, in-flight pointer
answer_question_record(s, is_correct, t) ==
    [s EXCEPT !.answered_count = @ + 1,
              !.correct_answers = IF is_correct THEN @ + 1 ELSE @,
              !.answered_questions = Append(@, s.current_question_id),
              !.question_queue = RemoveFirst(s.current_question_id, @),
              !.current_question_id = NoQuestion,
              !.last_activity_at = t]

answer_question(s, is_correct, t) ==
    IF ~is_active(s) THEN Outcome("InvalidStateTransition", s)
    ELSE IF s.current_question_id = NoQuestion THEN Outcome("EntityValidation", s)
    ELSE LET a == answer_question_record(s, is_correct, t)
         IN  IF should_complete(a, t) THEN complete(a, t) ELSE Outcome("none", a)

RECURSIVE AppendNew(_, _, _)
AppendNew(queue, answered, ids) ==
    IF ids = <<>> THEN queue
    ELSE IF ~InSeq(Head(ids), queue) /\ ~InSeq(Head(ids), answered)
         THEN AppendNew(Append(queue, Head(ids)), answered, Tail(ids))
         ELSE AppendNew(queue, answered, Tail(ids))

add_questions(s, ids) ==
    IF ~is_active(s) THEN Outcome("InvalidStateTransition", s)
    ELSE Outcome("none",
                 [s EXCEPT !.question_queue = AppendNew(@, s.answered_questions, ids)])

(***************************************************************************)
(* DifficultyRating and ReviewInterval value objects.  Multipliers are in  *)
(* hundredths, learning steps in minutes, intervals in days.               *)
(***************************************************************************)
Ratings == {"easy", "medium", "hard", "very_hard"}

to_ease_factor_modifier(rating) ==
    CASE rating = "easy" -> 15
      [] rating = "medium" -> 0
      [] rating = "hard" -> -15
      [] rating = "very_hard" -> -30

to_interval_modifier(rating) ==
    CASE rating = "easy" -> 130
      [] rating = "medium" -> 100
      [] rating = "hard" -> 60
      [] rating = "very_hard" -> 0

ReviewInterval_default ==
    [ learning_steps |-> <<1, 10>>, graduating_interval |-> 1, easy_interval |-> 4,
      easy_bonus |-> 130, interval_modifier |-> 100, maximum_interval |-> 36500 ]

ReviewInterval_aggressive ==
    [ learning_steps |-> <<1, 5>>, graduating_interval |-> 1, easy_interval |-> 2,
      easy_bonus |-> 115, interval_modifier |-> 80, maximum_interval |-> 180 ]

ReviewInterval_relaxed ==
    [ learning_steps |-> <<5, 20, 60>>, graduating_interval |-> 3, easy_interval |-> 7,
      easy_bonus |-> 150, interval_modifier |-> 120, maximum_interval |-> 36500 ]

ReviewConfigs == {ReviewInterval_default, ReviewInterval_aggressive, ReviewInterval_relaxed}

Min(a, b) == IF a < b THEN a ELSE b
Max(a, b) == IF a > b THEN a ELSE b

(***************************************************************************)
(* SpacedRepetitionCard entity.  total_time_seconds only accumulates the   *)
(* caller's number and is read by no decision, so it is left out.          *)
(***************************************************************************)
NoCard == [state |-> "absent"]

NewCard(user, q, config, t) ==
    [ user_id |-> user,
      question_id |-> q,
      state |-> "new",
      ease_factor |-> DefaultEase,
      interval_days |-> 0,
      due_date |-> t,
      last_reviewed_at |-> NoTime,
      total_reviews |-> 0,
      total_correct |-> 0,
      lapses |-> 0,
      review_config |-> config,
      learning_step |-> 0 ]

state_can_review(state) == state \notin {"suspended", "buried"}

can_review(c, t) ==
    IF ~state_can_review(c.state) THEN FALSE
    ELSE t >= c.due_date

is_overdue(c, t) ==
    IF ~state_can_review(c.state) THEN FALSE
    ELSE t > c.due_date + MinutesPerDay

get_current_learning_interval(c) ==
    LET steps == c.review_config.learning_steps
    IN  IF c.learning_step < Len(steps) THEN steps[c.learning_step + 1]
        ELSE IF Len(steps) > 0 THEN steps[Len(steps)] ELSE 10

\* the interval returned, with the card as the call leaves it (learning_step, lapses)
calculate_next_interval(c, rating) ==
    LET cfg == c.review_config
    IN  IF c.state = "new" THEN
            [ c |-> c,
              interval |-> CASE rating = "very_hard" -> 0
                             [] rating = "hard" -> 1
                             [] rating = "medium" -> cfg.graduating_interval
                             [] OTHER -> cfg.easy_interval ]
        ELSE IF c.state = "learning" THEN
            CASE rating = "very_hard" ->
                    [c |-> [c EXCEPT !.learning_step = 0], interval |-> 0]
              [] rating = "hard" ->
                    [c |-> c, interval |-> get_current_learning_interval(c)]
              [] rating = "medium" ->
                    LET c1 == [c EXCEPT !.learning_step = @ + 1]
                    IN  IF c1.learning_step >= Len(cfg.learning_steps)
                        THEN [c |-> c1, interval |-> cfg.graduating_interval]
                        ELSE [c |-> c1, interval |-> get_current_learning_interval(c1)]
              [] OTHER ->
                    [c |-> c, interval |-> cfg.easy_interval]
        ELSE
            LET c1 == IF rating = "very_hard" THEN [c EXCEPT !.lapses = @ + 1] ELSE c
                \* int(interval * ease * modifier * interval_modifier): every ease is a
                \* multiple of 0.05, every modifier of 0.1 and every interval_modifier
                \* of 0.2, so the product is taken in those units (it stays below 2^31)
                scaled == (c.interval_days * (c.ease_factor \div 5)
                              * (to_interval_modifier(rating) \div 10)
                              * (cfg.interval_modifier \div 20)) \div 1000
                bonus == IF rating = "easy" THEN (scaled * cfg.easy_bonus) \div 100 ELSE scaled
                new_interval == IF rating = "very_hard" THEN 1 ELSE bonus
            IN  [c |-> c1, interval |-> Max(1, Min(new_interval, cfg.maximum_interval))]

update_ease_unclamped(c, rating) ==
    IF c.state # "new"
    THEN [c EXCEPT !.ease_factor = @ + to_ease_factor_modifier(rating)]
    ELSE c

update_ease(c, rating) ==
    IF c.state # "new"
    THEN [c EXCEPT !.ease_factor =
                Min(MaxEase, Max(MinEase, @ + to_ease_factor_modifier(rating)))]
    ELSE c

update_state(c, rating) ==
    IF c.state = "new" THEN
        IF rating \in {"very_hard", "hard", "medium"}
        THEN [c EXCEPT !.state = "learning", !.learning_step = 0]
        ELSE [c EXCEPT !.state = "review"]
    ELSE IF c.state = "learning" THEN
        IF c.learning_step >= Len(c.review_config.learning_steps)
        THEN [c EXCEPT !.state = "review"]
        ELSE c
    ELSE IF c.state = "review" THEN
        IF rating = "very_hard"
        THEN [c EXCEPT !.state = "relearning", !.learning_step = 0]
        ELSE c
    ELSE IF c.state = "relearning" THEN
        IF rating # "very_hard" THEN [c EXCEPT !.state = "review"] ELSE c
    ELSE c

update_due_and_statistics(c, rating, t) ==
    [c EXCEPT !.due_date = IF c.interval_days = 0
                           THEN t + get_current_learning_interval(c)
                           ELSE t + c.interval_days * MinutesPerDay,
              !.total_reviews = @ + 1,
              !.total_correct = IF rating # "very_hard" THEN @ + 1 ELSE @,
              !.last_reviewed_at = t]

review(c, rating, t) ==
    LET c1 == update_ease(c, rating)
        ni == calculate_next_interval(c1, rating)
        c2 == [ni.c EXCEPT !.interval_days = ni.interval]
        c3 == update_state(c2, rating)
    IN  update_due_and_statistics(c3, rating, t)

COutcome(err, c) == [err |-> err, c |-> c]

suspend(c) ==
    IF c.state = "suspended" THEN COutcome("InvalidStateTransition", c)
    ELSE COutcome("none", [c EXCEPT !.state = "suspended"])

unsuspend(c) ==
    IF c.state # "suspended" THEN COutcome("InvalidStateTransition", c)
    ELSE COutcome("none", [c EXCEPT !.state = "review"])

\* midnight of the day after t
Tomorrow(t) == (t \div MinutesPerDay + 1) * MinutesPerDay

bury(c, t) ==
    IF c.state = "buried" THEN COutcome("InvalidStateTransition", c)
    ELSE COutcome("none", [c EXCEPT !.state = "buried", !.due_date = Tomorrow(t)])

\* SpacedRepetitionService.review_card on a card the repository holds
service_review_card(c, rating, t) ==
    IF ~can_review(c, t) THEN COutcome("BusinessRuleViolation", c)
    ELSE COutcome("none", review(c, rating, t))

\* process_overdue_cards, on one row
overdue_job_selects(c, t) ==
    /\ c.due_date < t - OverdueJobDays * MinutesPerDay
    /\ c.state \in {"review", "learning"}

process_overdue_card(c, t) ==
    IF overdue_job_selects(c, t)
    THEN [c EXCEPT !.interval_days = 1,
                   !.ease_factor = Max(MinEase, @ - OverdueJobEasePenalty),
                   !.due_date = t]
    ELSE c

(***************************************************************************)
(* Entity-level specification of one LearningSession: any sequence of its  *)
(* methods, with the clock advancing in between.                           *)
(***************************************************************************)
Op(name, err) == [op |-> name, err |-> err]

useCaseVars == <<sessions, cards, progress, events, procs>>

\* the state of the authentication, cache, rate-limit, achievement and hint layers
\* the state of the event bus, the background jobs, the importer and the memory cache
serviceVars == <<bus, jobRows, questionRows, hierarchy, memory>>

platformVars == <<users, tokens, cache, requests, unlocked, hints, serviceVars>>

\* no event published, no job row, no question, no hierarchy row, an empty memory cache
ServicesIdle ==
    /\ bus = <<>>
    /\ jobRows = <<>>
    /\ questionRows = <<>>
    /\ hierarchy = <<>>
    /\ memory = <<>>

\* no users, tokens, cache entries, counted requests, unlocked achievements or hints
PlatformIdle ==
    /\ users = <<>>
    /\ tokens = {}
    /\ cache = <<>>
    /\ requests = <<>>
    /\ unlocked = <<>>
    /\ hints = <<>>
    /\ ServicesIdle

NoProgress == [facet_exists |-> FALSE, facet_updates |-> 0, total_questions_answered |-> 0]

\* no rows and nothing in flight: the entity-level specifications leave it so
EmptyDatabase ==
    /\ sessions = <<>>
    /\ cards = <<>>
    /\ progress = NoProgress
    /\ events = 0
    /\ procs = <<>>

Entered(s, r) == s.status # "completed" /\ r.s.status = "completed"

Note(name, r) ==
    /\ last' = Op(name, r.err)
    /\ completions' = IF Entered(session, r) THEN Append(completions, name) ELSE completions
    /\ UNCHANGED <<now, card, platformVars, reviewsDone, useCaseVars>>

SessionInit ==
    /\ PlatformIdle
    /\ now = 0
    /\ last = Op("init", "none")
    /\ \E ql \in QuestionLimits, tl \in TimeLimits :
           session = NewSession("u1", "f1", ql, tl, 0)
    /\ completions = <<>>
    /\ card = NoCard
    /\ reviewsDone = 0
    /\ EmptyDatabase

Pause ==
    LET r == pause(session, now)
    IN  /\ session' = r.s
        /\ Note("pause", r)

Resume ==
    LET r == resume(session, now)
    IN  /\ session' = r.s
        /\ Note("resume", r)

Complete ==
    LET r == complete(session, now)
    IN  /\ session' = r.s
        /\ Note("complete", r)

Abandon ==
    LET r == abandon(session, now)
    IN  /\ session' = r.s
        /\ Note("abandon", r)

StartQuestion ==
    \E q \in Questions :
        LET r == start_question(session, q, now)
        IN  /\ session' = r.s
            /\ Note("start_question", r)

AnswerQuestion ==
    /\ Len(session.answered_questions) < MaxAnswered
    /\ \E c \in BOOLEAN :
           LET r == answer_question(session, c, now)
           IN  /\ session' = r.s
               /\ Note("answer_question", r)

AddQuestions ==
    \E ids \in QuestionLists :
        LET r == add_questions(session, ids)
        IN  /\ session' = r.s
            /\ Note("add_questions", r)

Tick ==
    /\ now + TickMinutes <= MaxTime
    /\ now' = now + TickMinutes
    /\ last' = Op("tick", "none")
    /\ UNCHANGED <<session, completions, card, platformVars, reviewsDone, useCaseVars>>

SessionNext ==
    \/ Pause
    \/ Resume
    \/ Complete
    \/ Abandon
    \/ StartQuestion
    \/ AnswerQuestion
    \/ AddQuestions
    \/ Tick

vars == <<now, last, session, completions, card, reviewsDone, useCaseVars, platformVars>>

SessionSpec == SessionInit /\ [][SessionNext]_vars

(***************************************************************************)
(* Entity-level specification of one SpacedRepetitionCard: its methods,    *)
(* SpacedRepetitionService.review_card, and the overdue-card job on its    *)
(* row, with the clock advancing by days in between.  The card starts as   *)
(* the use cases construct it, or as one of two rows that earlier reviews  *)
(* and job runs leave behind (StoredCards).                                *)
(***************************************************************************)
\* new -hard-> learning, very_hard x2 (ease 1.9), hard (1.75), medium x2 (graduated,
\* interval 1), then two runs of the overdue job (1.55, 1.35), the last at time 0
StoredLowEaseCard ==
    [NewCard("u1", "q1", ReviewInterval_default, 0) EXCEPT
        !.state = "review", !.ease_factor = 135, !.interval_days = 1,
        !.due_date = 0, !.last_reviewed_at = 0 - 17 * MinutesPerDay,
        !.total_reviews = 6, !.total_correct = 4, !.learning_step = 2]

\* new -easy-> review, then 16 more easy reviews (ease 4.9, interval capped), the
\* last at time 0
StoredHighEaseCard ==
    [NewCard("u1", "q1", ReviewInterval_default, 0) EXCEPT
        !.state = "review", !.ease_factor = 490, !.interval_days = 36500,
        !.due_date = 36500 * MinutesPerDay, !.last_reviewed_at = 0,
        !.total_reviews = 17, !.total_correct = 17]

StoredCards == {StoredLowEaseCard, StoredHighEaseCard}

CardDayJumps == {8}

CardOp(name, err, rating, before) ==
    [op |-> name, err |-> err, rating |-> rating, ease_before |-> before.ease_factor]

CardInit ==
    /\ PlatformIdle
    /\ now = 0
    /\ last = Op("init", "none")
    /\ session = NewSession("u1", "f1", NoLimit, NoLimit, 0)
    /\ completions = <<>>
    /\ card \in {NewCard("u1", "q1", cfg, 0) : cfg \in ReviewConfigs} \cup StoredCards
    /\ reviewsDone = 0
    /\ EmptyDatabase

\* card.review(rating, time) called on the entity, as SubmitAnswerUseCase does
CardReview ==
    /\ reviewsDone < MaxReviews
    /\ \E rating \in Ratings :
           /\ card' = review(card, rating, now)
           /\ last' = CardOp("review", "none", rating, card)
    /\ reviewsDone' = reviewsDone + 1
    /\ UNCHANGED <<now, session, completions, platformVars, useCaseVars>>

ServiceReviewCard ==
    /\ reviewsDone < MaxReviews
    /\ \E rating \in Ratings :
           LET r == service_review_card(card, rating, now)
           IN  /\ card' = r.c
               /\ last' = CardOp("review_card", r.err, rating, card)
               /\ reviewsDone' = IF r.err = "none" THEN reviewsDone + 1 ELSE reviewsDone
    /\ UNCHANGED <<now, session, completions, platformVars, useCaseVars>>

Suspend ==
    LET r == suspend(card)
    IN  /\ card' = r.c
        /\ last' = CardOp("suspend", r.err, "none", card)
        /\ UNCHANGED <<now, session, completions, platformVars, reviewsDone, useCaseVars>>

Unsuspend ==
    LET r == unsuspend(card)
    IN  /\ card' = r.c
        /\ last' = CardOp("unsuspend", r.err, "none", card)
        /\ UNCHANGED <<now, session, completions, platformVars, reviewsDone, useCaseVars>>

Bury ==
    LET r == bury(card, now)
    IN  /\ card' = r.c
        /\ last' = CardOp("bury", r.err, "none", card)
        /\ UNCHANGED <<now, session, completions, platformVars, reviewsDone, useCaseVars>>

ProcessOverdueCards ==
    /\ card' = process_overdue_card(card, now)
    /\ last' = CardOp("process_overdue_cards", "none", "none", card)
    /\ UNCHANGED <<now, session, completions, platformVars, reviewsDone, useCaseVars>>

CardTick ==
    /\ \E d \in CardDayJumps :
           /\ now + d * MinutesPerDay <= MaxDays * MinutesPerDay
           /\ now' = now + d * MinutesPerDay
    /\ last' = Op("tick", "none")
    /\ UNCHANGED <<session, completions, platformVars, card, reviewsDone, useCaseVars>>

CardNext ==
    \/ CardReview
    \/ ServiceReviewCard
    \/ Suspend
    \/ Unsuspend
    \/ Bury
    \/ ProcessOverdueCards
    \/ CardTick

CardSpec == CardInit /\ [][CardNext]_vars

(***************************************************************************)
(* The repositories and their rows.  A row id is the row's position in its *)
(* table; NoId names no row.  save() writes the whole entity back under    *)
(* its id (DjangoRepository.save), inserting it when the id is new.        *)
(* Every question belongs to facet f1, and u1 is the one user.             *)
(***************************************************************************)
MaxSessions == 1
MaxCardRequests == 1
IdleTickMinutes == 31

DailyNewCardLimit == 20

Users == {"u1"}
ActiveUsers == {"u1"}
NoFacet == "none"
Facets == {"f1"}
UnknownQuestion == "q9"
NoId == 0
NoSession == [user_id |-> "none", status |-> "absent"]
DailyGoals == {1, 2}
StartQuestionLimits == {NoLimit, 1}
StartTimeLimits == {NoLimit}
AdaptiveLists == {<<>>, <<"q1">>, <<"q1", "q2">>}
RequestRatings == {"easy", "very_hard"}

get_by_id(rows, id, absent) == IF id \in DOMAIN rows THEN rows[id] ELSE absent

\* LearningSessionModel.last_activity_at is auto_now: every save stamps it
save_session(rows, id, s, t) ==
    LET row == [s EXCEPT !.last_activity_at = t]
    IN  IF id \in DOMAIN rows THEN [rows EXCEPT ![id] = row] ELSE Append(rows, row)

ActiveSessionIds(rows, u) ==
    {i \in DOMAIN rows : rows[i].user_id = u /\ rows[i].status = "active"}

\* objects.aget(user_id, status='active'): DoesNotExist is caught, two rows are not
get_active_session(rows, u) ==
    LET ids == ActiveSessionIds(rows, u)
    IN  IF ids = {} THEN [err |-> "none", id |-> NoId]
        ELSE IF Cardinality(ids) = 1 THEN [err |-> "none", id |-> CHOOSE i \in ids : TRUE]
        ELSE [err |-> "MultipleObjectsReturned", id |-> NoId]

CardIds(rows, u, q) ==
    {i \in DOMAIN rows : rows[i].user_id = u /\ rows[i].question_id = q}

get_by_user_and_question(rows, u, q) ==
    LET ids == CardIds(rows, u, q)
    IN  IF ids = {} THEN [err |-> "none", id |-> NoId]
        ELSE IF Cardinality(ids) = 1 THEN [err |-> "none", id |-> CHOOSE i \in ids : TRUE]
        ELSE [err |-> "MultipleObjectsReturned", id |-> NoId]

\* INSERT without the table's constraint
insert_cards_unchecked(rows, new) == [err |-> "none", rows |-> rows \o new]

\* INSERT of one or more cards in one statement, under unique_together (user, question)
insert_cards(rows, new) ==
    IF \/ \E i \in DOMAIN new : CardIds(rows, new[i].user_id, new[i].question_id) # {}
       \/ \E i, j \in DOMAIN new :
              i # j /\ new[i].user_id = new[j].user_id
                    /\ new[i].question_id = new[j].question_id
    THEN [err |-> "IntegrityError", rows |-> rows]
    ELSE [err |-> "none", rows |-> rows \o new]

\* the rows of a query ordered by due_date that LIMIT 1 may return
EarliestDue(rows, ids) ==
    {i \in ids : \A j \in ids : rows[i].due_date <= rows[j].due_date}

get_overdue_cards(rows, u, t) ==
    EarliestDue(rows, {i \in DOMAIN rows :
        /\ rows[i].user_id = u
        /\ rows[i].due_date < t - MinutesPerDay
        /\ rows[i].state \in {"review", "relearning"}})

get_learning_cards(rows, u, t) ==
    EarliestDue(rows, {i \in DOMAIN rows :
        rows[i].user_id = u /\ rows[i].state = "learning" /\ rows[i].due_date <= t})

\* ordered by created_at, which is the due_date of a card still in state new
get_new_cards(rows, u) ==
    EarliestDue(rows, {i \in DOMAIN rows : rows[i].user_id = u /\ rows[i].state = "new"})

get_due_cards(rows, u, t) ==
    EarliestDue(rows, {i \in DOMAIN rows :
        /\ rows[i].user_id = u
        /\ rows[i].due_date <= t
        /\ rows[i].state \in {"review", "relearning"}})

TodayStart(t) == (t \div MinutesPerDay) * MinutesPerDay

get_today_new_count(rows, u, t) ==
    Cardinality({i \in DOMAIN rows :
        /\ rows[i].user_id = u
        /\ rows[i].state = "learning"
        /\ rows[i].last_reviewed_at # NoTime
        /\ rows[i].last_reviewed_at >= TodayStart(t)
        /\ rows[i].total_reviews = 1})

\* SpacedRepetitionService.get_next_card: the ids of the cards it may return
get_next_card(rows, u, daily_limit, t) ==
    IF get_overdue_cards(rows, u, t) # {} THEN get_overdue_cards(rows, u, t)
    ELSE IF \E i \in get_learning_cards(rows, u, t) : can_review(rows[i], t)
         THEN {i \in get_learning_cards(rows, u, t) : can_review(rows[i], t)}
    ELSE IF get_today_new_count(rows, u, t) < daily_limit /\ get_new_cards(rows, u) # {}
         THEN get_new_cards(rows, u)
    ELSE get_due_cards(rows, u, t)

\* no use case writes a UserResponse row, so the query excludes nothing
get_unanswered_by_user(u, facet) == IF facet \in Facets THEN Questions ELSE {}

\* a shuffled selection of at most `count` questions of the facet
get_adaptive_questions(count) ==
    {ids \in AdaptiveLists : Len(ids) <= count}

(***************************************************************************)
(* The learning use cases, each applied in one step to the rows.  A use    *)
(* case that raises keeps the saves it made before the exception: there is *)
(* no transaction around a request.                                        *)
(***************************************************************************)
Req(name, err, user, sid, q) ==
    [op |-> name, err |-> err, user |-> user, session_id |-> sid, question_id |-> q]

NextReq(err, user, sid, facet, prefer_review, served) ==
    [op |-> "get_next_question", err |-> err, user |-> user, session_id |-> sid,
     facet_id |-> facet, prefer_review |-> prefer_review, served |-> served]

CardReq(err, user, cid, rating) ==
    [op |-> "review_card", err |-> err, user |-> user, card_id |-> cid, rating |-> rating]

\* a use case that skipped the ownership comparison
owned_by_unchecked(row, u) == TRUE

\* the ownership comparison of the learning use cases: session.user_id != user_id
owned_by(row, u) == row.user_id = u

\* StartLearningSessionUseCase.execute from the active-session lookup on
StartLearningSessionOutcomes(rows, u, facet, qlimit, tlimit, t) ==
    LET a == get_active_session(rows, u)
        found == get_by_id(rows, a.id, NoSession)
        rows1 == IF a.id # NoId /\ is_expired(found, t)
                 THEN save_session(rows, a.id, abandon(found, t).s, t)
                 ELSE rows
        fresh == NewSession(u, facet, qlimit, tlimit, t)
        count == Min(IF qlimit = NoLimit THEN 20 ELSE qlimit, 20)
    IN  IF a.err # "none" THEN {[err |-> a.err, rows |-> rows, id |-> NoId]}
        ELSE IF a.id # NoId /\ ~is_expired(found, t)
             THEN {[err |-> "none", rows |-> rows, id |-> a.id]}
        ELSE IF facet = NoFacet
             THEN {[err |-> "none", id |-> Len(rows1) + 1,
                    rows |-> save_session(rows1, Len(rows1) + 1, fresh, t)]}
        ELSE {[err |-> "none", id |-> Len(rows1) + 1,
               rows |-> save_session(rows1, Len(rows1) + 1,
                                     add_questions(fresh, ids).s, t)] :
                 ids \in get_adaptive_questions(count)}

\* the tail of GetNextQuestionUseCase.execute once question q is chosen
ServeQuestion(s, q, from_queue, t) ==
    LET a == IF from_queue THEN Outcome("none", s) ELSE add_questions(s, <<q>>)
        r == start_question(a.s, q, t)
    IN  IF a.err # "none"
        THEN [err |-> a.err, served |-> NoQuestion, s |-> s, saved |-> FALSE]
        ELSE IF r.err # "none"
        THEN [err |-> r.err, served |-> NoQuestion, s |-> a.s, saved |-> ~from_queue]
        ELSE [err |-> "none", served |-> q, s |-> r.s, saved |-> TRUE]

\* GetNextQuestionUseCase.execute on a session it found, owned and not expired
GetNextQuestionOutcomes(s, facet, prefer_review, card_rows, t) ==
    IF should_complete(s, t) THEN
        LET r == complete(s, t)
        IN  {[err |-> r.err, served |-> NoQuestion, s |-> r.s, saved |-> r.err = "none"]}
    ELSE
        LET from_queue == Len(s.question_queue) > 0
            next_cards == IF ~from_queue /\ facet # NoFacet /\ prefer_review
                          THEN get_next_card(card_rows, s.user_id, DailyNewCardLimit, t)
                          ELSE {}
            choices == IF from_queue THEN {Head(s.question_queue)}
                       ELSE IF next_cards # {}
                            THEN {card_rows[i].question_id : i \in next_cards}
                       ELSE IF facet # NoFacet
                            THEN get_unanswered_by_user(s.user_id, facet)
                       ELSE {}
        IN  IF choices = {}
            THEN {[err |-> "none", served |-> NoQuestion, s |-> s, saved |-> FALSE]}
            ELSE {ServeQuestion(s, q, from_queue, t) : q \in choices}

\* the card half of SubmitAnswerUseCase.execute: get or create, review, save
SubmitAnswerCard(rows, u, q, rating, t) ==
    LET g == get_by_user_and_question(rows, u, q)
        ins == IF g.id = NoId
               THEN insert_cards(rows, <<NewCard(u, q, ReviewInterval_default, t)>>)
               ELSE [err |-> "none", rows |-> rows]
        id == IF g.id = NoId THEN Len(ins.rows) ELSE g.id
    IN  IF g.err # "none" THEN [err |-> g.err, rows |-> rows]
        ELSE IF ins.err # "none" THEN [err |-> ins.err, rows |-> rows]
        ELSE [err |-> "none",
              rows |-> [ins.rows EXCEPT ![id] = review(ins.rows[id], rating, t)]]

\* FacetProgress.update_performance and save, when the row exists
update_facet_progress(p) ==
    IF p.facet_exists THEN [p EXCEPT !.facet_updates = @ + 1] ELSE p

(***************************************************************************)
(* Use-case specification: the learning requests of u1 and u2 and the      *)
(* session and card jobs, one at a time, on one database.                  *)
(***************************************************************************)
LearnInit ==
    /\ PlatformIdle
    /\ now = 0
    /\ last = Op("init", "none")
    /\ session = NoSession
    /\ completions = <<>>
    /\ card = NoCard
    /\ reviewsDone = 0
    /\ sessions = <<>>
    /\ cards = <<>>
    \* only ProgressRepository.update_facet_progress creates the facet row
    /\ progress \in {[NoProgress EXCEPT !.facet_exists = b] : b \in BOOLEAN}
    /\ events = 0
    /\ procs = <<>>

StartLearningSession ==
    /\ \E u \in ActiveUsers, facet \in Facets \cup {NoFacet},
          qlimit \in StartQuestionLimits, tlimit \in StartTimeLimits :
           \E r \in StartLearningSessionOutcomes(sessions, u, facet, qlimit, tlimit, now) :
               /\ Len(r.rows) <= MaxSessions
               /\ sessions' = r.rows
               /\ last' = Req("start_learning_session", r.err, u, r.id, NoQuestion)
    /\ UNCHANGED <<now, session, completions, platformVars, card, reviewsDone,
                   cards, progress, events, procs>>

GetNextQuestionAs(u) ==
    /\ \E sid \in 1..MaxSessions, facet \in Facets \cup {NoFacet},
          prefer_review \in BOOLEAN :
           LET s == get_by_id(sessions, sid, NoSession)
           IN  IF s = NoSession \/ ~owned_by(s, u) THEN
                   /\ last' = NextReq("EntityNotFound", u, sid, facet, prefer_review,
                                      NoQuestion)
                   /\ UNCHANGED sessions
               ELSE IF is_expired(s, now) THEN
                   /\ last' = NextReq("SessionExpired", u, sid, facet, prefer_review,
                                      NoQuestion)
                   /\ UNCHANGED sessions
               ELSE \E r \in GetNextQuestionOutcomes(s, facet, prefer_review, cards, now) :
                   /\ sessions' = IF r.saved THEN save_session(sessions, sid, r.s, now)
                                  ELSE sessions
                   /\ last' = NextReq(r.err, u, sid, facet, prefer_review, r.served)
    /\ UNCHANGED <<now, session, completions, platformVars, card, reviewsDone,
                   cards, progress, events, procs>>

GetNextQuestion == \E u \in Users : GetNextQuestionAs(u)

\* SubmitAnswerUseCase.execute.  The answer's grade is the request's to decide
\* (Question.check_answer compares it with the stored key), so it is an input.
SubmitAnswerAs(u) ==
    /\ \E sid \in 1..MaxSessions, q \in Questions \cup {UnknownQuestion},
          is_correct \in BOOLEAN, rating \in RequestRatings :
           LET s == get_by_id(sessions, sid, NoSession)
               a == answer_question(s, is_correct, now)
               c == SubmitAnswerCard(cards, u, q, rating, now)
               early == IF s = NoSession \/ ~owned_by(s, u) THEN "EntityNotFound"
                        ELSE IF ~is_active(s) THEN "BusinessRuleViolation"
                        ELSE IF q \notin Questions THEN "EntityNotFound"
                        ELSE a.err
           IN  IF early # "none" THEN
                   /\ last' = Req("submit_answer", early, u, sid, q)
                   /\ UNCHANGED <<sessions, cards, progress, events>>
               ELSE IF c.err # "none" THEN
                   /\ sessions' = save_session(sessions, sid, a.s, now)
                   /\ last' = Req("submit_answer", c.err, u, sid, q)
                   /\ UNCHANGED <<cards, progress, events>>
               ELSE
                   /\ sessions' = save_session(sessions, sid, a.s, now)
                   /\ cards' = c.rows
                   /\ progress' = update_facet_progress(progress)
                   /\ events' = events + 1
                   /\ last' = Req("submit_answer", "none", u, sid, q)
    /\ UNCHANGED <<now, session, completions, platformVars, card, reviewsDone, procs>>

SubmitAnswer == \E u \in Users : SubmitAnswerAs(u)

\* EndSessionUseCase.execute and its _update_progress
EndSessionAs(u) ==
    /\ \E sid \in 1..MaxSessions :
           LET s == get_by_id(sessions, sid, NoSession)
               r == complete(s, now)
               folded == [progress EXCEPT
                             !.total_questions_answered = @ + r.s.answered_count]
           IN  IF s = NoSession \/ ~owned_by(s, u) THEN
                   /\ last' = Req("end_session", "EntityNotFound", u, sid, NoQuestion)
                   /\ UNCHANGED <<sessions, progress>>
               ELSE IF ~is_active(s) THEN
                   /\ last' = Req("end_session", "BusinessRuleViolation", u, sid,
                                  NoQuestion)
                   /\ UNCHANGED <<sessions, progress>>
               ELSE
                   /\ sessions' = save_session(sessions, sid, r.s, now)
                   /\ progress' = IF r.s.answered_count = 0 THEN progress
                                  ELSE IF r.s.facet_id = NoFacet THEN folded
                                  ELSE update_facet_progress(folded)
                   /\ last' = Req("end_session", "none", u, sid, NoQuestion)
    /\ UNCHANGED <<now, session, completions, platformVars, card, reviewsDone, cards, events, procs>>

EndSession == \E u \in Users : EndSessionAs(u)

\* ReviewCardUseCase.execute and its _update_progress
ReviewCardAs(u) ==
    /\ \E cid \in 1..(Len(cards) + 1), rating \in RequestRatings :
           LET c == get_by_id(cards, cid, NoCard)
               r == service_review_card(c, rating, now)
           IN  IF c = NoCard \/ ~owned_by(c, u) THEN
                   /\ last' = CardReq("EntityNotFound", u, cid, rating)
                   /\ UNCHANGED <<cards, progress, reviewsDone>>
               ELSE IF ~can_review(c, now) THEN
                   /\ last' = CardReq("BusinessRuleViolation", u, cid, rating)
                   /\ UNCHANGED <<cards, progress, reviewsDone>>
               ELSE
                   /\ cards' = [cards EXCEPT ![cid] = r.c]
                   /\ progress' = [progress EXCEPT !.total_questions_answered = @ + 1]
                   /\ reviewsDone' = reviewsDone + 1
                   /\ last' = CardReq(r.err, u, cid, rating)
    /\ UNCHANGED <<now, session, completions, platformVars, card, sessions, events, procs>>

ReviewCard == reviewsDone < MaxCardRequests /\ \E u \in Users : ReviewCardAs(u)

\* cleanup_expired_sessions, on every row it selects
cleanup_expired_session(row, t) ==
    IF row.status = "active" /\ row.last_activity_at < t - IdleExpiryMinutes
    THEN [row EXCEPT !.status = "abandoned", !.ended_at = row.last_activity_at,
                     !.last_activity_at = t]
    ELSE row

CleanupExpiredSessions ==
    /\ sessions' = [i \in DOMAIN sessions |-> cleanup_expired_session(sessions[i], now)]
    /\ last' = Op("cleanup_expired_sessions", "none")
    /\ UNCHANGED <<now, session, completions, platformVars, card, reviewsDone,
                   cards, progress, events, procs>>

\* generate_daily_review_cards: the question lists its query may return for a
\* user, first daily_goal rows of the questions the user has no card for
new_questions(rows, u, daily_goal) ==
    LET unseen == {q \in Questions : CardIds(rows, u, q) = {}}
    IN  {ids \in QuestionLists \cup {<<>>} :
            /\ Len(ids) = Min(daily_goal, Cardinality(unseen))
            /\ \A i \in DOMAIN ids : ids[i] \in unseen}

new_card_rows(u, ids, t) ==
    [i \in DOMAIN ids |-> NewCard(u, ids[i], ReviewInterval_default, t)]

GenerateDailyReviewCards ==
    /\ \E u \in ActiveUsers, daily_goal \in DailyGoals :
           \E ids \in new_questions(cards, u, daily_goal) :
               LET r == insert_cards(cards, new_card_rows(u, ids, now))
               IN  /\ cards' = r.rows
                   /\ last' = Op("generate_daily_review_cards", r.err)
    /\ UNCHANGED <<now, session, completions, platformVars, card, reviewsDone,
                   sessions, progress, events, procs>>

LearnTick ==
    /\ now + IdleTickMinutes <= MaxTime
    /\ now' = now + IdleTickMinutes
    /\ last' = Op("tick", "none")
    /\ UNCHANGED <<session, completions, platformVars, card, reviewsDone, useCaseVars>>

LearnNext ==
    \/ StartLearningSession
    \/ GetNextQuestion
    \/ SubmitAnswer
    \/ EndSession
    \/ ReviewCard
    \/ CleanupExpiredSessions
    \/ GenerateDailyReviewCards
    \/ LearnTick

LearnSpec == LearnInit /\ [][LearnNext]_vars

(***************************************************************************)
(* Concurrent specification of StartLearningSessionUseCase: two requests   *)
(* of u1 run execute() at once.  A request is at an await between steps:   *)
(* the lookup, the save of the abandoned session it found expired, and the *)
(* save of the session it created are separate database statements, and    *)
(* between them the request works on the entity it holds in memory.        *)
(***************************************************************************)
StartProcs == {"start1", "start2"}

IdleStart ==
    [pc |-> "idle", err |-> "none", id |-> NoId, entity |-> NoSession,
     facet_id |-> NoFacet, question_limit |-> NoLimit]

RaceInit ==
    /\ PlatformIdle
    /\ now = 0
    /\ last = Op("init", "none")
    /\ session = NoSession
    /\ completions = <<>>
    /\ card = NoCard
    /\ reviewsDone = 0
    /\ cards = <<>>
    /\ events = 0

StartRaceInit ==
    /\ RaceInit
    /\ sessions = <<>>
    /\ progress = NoProgress
    /\ procs = [p \in StartProcs |-> IdleStart]

raceFixed == <<session, completions, platformVars, card, reviewsDone, cards, progress, events>>

\* await session_repo.get_active_session(user_id), and the branch taken on it
StartLookup(p) ==
    /\ procs[p].pc = "idle"
    /\ \E facet \in Facets \cup {NoFacet}, qlimit \in StartQuestionLimits :
           LET a == get_active_session(sessions, "u1")
               found == get_by_id(sessions, a.id, NoSession)
               req == [IdleStart EXCEPT !.facet_id = facet, !.question_limit = qlimit]
           IN  /\ procs' = [procs EXCEPT ![p] =
                     IF a.err # "none" THEN [req EXCEPT !.pc = "done", !.err = a.err]
                     ELSE IF a.id = NoId THEN [req EXCEPT !.pc = "create"]
                     ELSE IF is_expired(found, now)
                          THEN [req EXCEPT !.pc = "abandon", !.id = a.id,
                                           !.entity = found]
                     ELSE [req EXCEPT !.pc = "done", !.id = a.id]]
               /\ last' = Op("start_lookup", a.err)
    /\ UNCHANGED <<now, sessions, raceFixed>>

\* active_session.abandon(); await session_repo.save(active_session)
StartAbandonExpired(p) ==
    /\ procs[p].pc = "abandon"
    /\ LET r == abandon(procs[p].entity, now)
       IN  /\ sessions' = save_session(sessions, procs[p].id, r.s, now)
           /\ procs' = [procs EXCEPT ![p].pc = "create", ![p].id = NoId,
                                     ![p].entity = NoSession]
           /\ last' = Op("start_abandon_expired", r.err)
    /\ UNCHANGED <<now, raceFixed>>

\* the new session, its adaptive questions, await session_repo.save(session)
StartCreate(p) ==
    /\ procs[p].pc = "create"
    /\ LET fresh == NewSession("u1", procs[p].facet_id, procs[p].question_limit,
                               NoLimit, now)
           count == Min(IF procs[p].question_limit = NoLimit THEN 20
                        ELSE procs[p].question_limit, 20)
       IN  \E ids \in IF procs[p].facet_id = NoFacet THEN {<<>>}
                      ELSE get_adaptive_questions(count) :
               /\ sessions' = save_session(sessions, Len(sessions) + 1,
                                           add_questions(fresh, ids).s, now)
               /\ procs' = [procs EXCEPT ![p].pc = "done",
                                         ![p].id = Len(sessions) + 1]
               /\ last' = Op("start_create", "none")
    /\ UNCHANGED <<now, raceFixed>>

\* the response is sent; the client's next request may follow
StartRespond(p) ==
    /\ procs[p].pc = "done"
    /\ procs' = [procs EXCEPT ![p] = IdleStart]
    /\ last' = Op("start_respond", procs[p].err)
    /\ UNCHANGED <<now, sessions, raceFixed>>

RaceTick ==
    /\ now + IdleTickMinutes <= MaxTime
    /\ now' = now + IdleTickMinutes
    /\ last' = Op("tick", "none")
    /\ UNCHANGED <<sessions, procs, raceFixed>>

StartRaceNext ==
    \/ \E p \in StartProcs : StartLookup(p)
    \/ \E p \in StartProcs : StartAbandonExpired(p)
    \/ \E p \in StartProcs : StartCreate(p)
    \/ \E p \in StartProcs : StartRespond(p)
    \/ RaceTick

StartRaceSpec == StartRaceInit /\ [][StartRaceNext]_vars

(***************************************************************************)
(* Concurrent specification of the card rows: two SubmitAnswer requests of *)
(* u1 on the same session and one run of generate_daily_review_cards.      *)
(* Each step is one database statement with the in-memory work before it.  *)
(* The session is as StartLearningSession and GetNextQuestion left it:     *)
(* q1 served and in flight.                                                *)
(***************************************************************************)
SubmitProcs == {"submit1", "submit2"}
JobProc == "job"

IdleSubmit ==
    [pc |-> "idle", err |-> "none", question_id |-> NoQuestion, rating |-> "none",
     entity |-> NoSession, card_id |-> NoId, card |-> NoCard]

IdleJob == [pc |-> "idle", err |-> "none", ids |-> <<>>]

ServedSessions ==
    {[add_questions(NewSession("u1", "f1", NoLimit, NoLimit, 0), ids).s
         EXCEPT !.current_question_id = "q1"] :
       ids \in {<<"q1">>, <<"q1", "q2">>}}

CardRaceInit ==
    /\ RaceInit
    /\ sessions \in {<<s>> : s \in ServedSessions}
    /\ progress \in {[NoProgress EXCEPT !.facet_exists = b] : b \in BOOLEAN}
    /\ procs = [p \in SubmitProcs \cup {JobProc} |->
                   IF p = JobProc THEN IdleJob ELSE IdleSubmit]

cardRaceFixed == <<now, session, completions, platformVars, card, reviewsDone>>

Fail(p, err) == [procs EXCEPT ![p].pc = "done", ![p].err = err]

\* await session_repo.get_by_id(session_id), the ownership and is_active checks
SubmitLoadSession(p) ==
    /\ procs[p].pc = "idle"
    /\ \E q \in Questions, rating \in RequestRatings :
           LET s == get_by_id(sessions, 1, NoSession)
               req == [IdleSubmit EXCEPT !.question_id = q, !.rating = rating]
           IN  procs' = [procs EXCEPT ![p] =
                   IF s = NoSession \/ s.user_id # "u1"
                   THEN [req EXCEPT !.pc = "done", !.err = "EntityNotFound"]
                   ELSE IF ~is_active(s)
                   THEN [req EXCEPT !.pc = "done", !.err = "BusinessRuleViolation"]
                   ELSE [req EXCEPT !.pc = "answer", !.entity = s]]
    /\ last' = Op("submit_load_session", procs'[p].err)
    /\ UNCHANGED <<sessions, cards, progress, events, cardRaceFixed>>

\* session.answer_question(...); await session_repo.save(session)
SubmitSaveSession(p) ==
    /\ procs[p].pc = "answer"
    /\ \E is_correct \in BOOLEAN :
           LET r == answer_question(procs[p].entity, is_correct, now)
           IN  IF r.err # "none"
               THEN /\ procs' = Fail(p, r.err)
                    /\ UNCHANGED sessions
               ELSE /\ sessions' = save_session(sessions, 1, r.s, now)
                    /\ procs' = [procs EXCEPT ![p].pc = "get_card",
                                              ![p].entity = r.s]
    /\ last' = Op("submit_save_session", procs'[p].err)
    /\ UNCHANGED <<cards, progress, events, cardRaceFixed>>

\* await sr_repo.get_by_user_and_question(user_id, question_id)
SubmitGetCard(p) ==
    /\ procs[p].pc = "get_card"
    /\ LET g == get_by_user_and_question(cards, "u1", procs[p].question_id)
       IN  procs' = IF g.err # "none" THEN Fail(p, g.err)
                    ELSE IF g.id = NoId THEN [procs EXCEPT ![p].pc = "create_card"]
                    ELSE [procs EXCEPT ![p].pc = "review", ![p].card_id = g.id,
                                       ![p].card = cards[g.id]]
    /\ last' = Op("submit_get_card", procs'[p].err)
    /\ UNCHANGED <<sessions, cards, progress, events, cardRaceFixed>>

\* card = SpacedRepetitionCard(...); await sr_repo.save(card)
SubmitCreateCard(p) ==
    /\ procs[p].pc = "create_card"
    /\ LET fresh == NewCard("u1", procs[p].question_id, ReviewInterval_default, now)
           r == insert_cards(cards, <<fresh>>)
       IN  /\ cards' = r.rows
           /\ procs' = IF r.err # "none" THEN Fail(p, r.err)
                        ELSE [procs EXCEPT ![p].pc = "review",
                                           ![p].card_id = Len(r.rows),
                                           ![p].card = fresh]
    /\ last' = Op("submit_create_card", procs'[p].err)
    /\ UNCHANGED <<sessions, progress, events, cardRaceFixed>>

\* card.review(rating, time); await sr_repo.save(card)
SubmitReviewCard(p) ==
    /\ procs[p].pc = "review"
    /\ LET c == review(procs[p].card, procs[p].rating, now)
       IN  /\ cards' = [cards EXCEPT ![procs[p].card_id] = c]
           /\ procs' = [procs EXCEPT ![p].pc = "record", ![p].card = c]
    /\ last' = Op("submit_review_card", "none")
    /\ UNCHANGED <<sessions, progress, events, cardRaceFixed>>

\* the facet progress update and the LearningEvent row
SubmitRecord(p) ==
    /\ procs[p].pc = "record"
    /\ progress' = update_facet_progress(progress)
    /\ events' = events + 1
    /\ procs' = [procs EXCEPT ![p].pc = "done"]
    /\ last' = Op("submit_record", "none")
    /\ UNCHANGED <<sessions, cards, cardRaceFixed>>

\* the job's query for the questions u1 has no card for
JobSelectQuestions ==
    /\ procs[JobProc].pc = "idle"
    /\ \E daily_goal \in DailyGoals :
           \E ids \in new_questions(cards, "u1", daily_goal) :
               procs' = [procs EXCEPT ![JobProc].ids = ids,
                            ![JobProc].pc = IF ids = <<>> THEN "done"
                                            ELSE "bulk_create"]
    /\ last' = Op("job_select_questions", "none")
    /\ UNCHANGED <<sessions, cards, progress, events, cardRaceFixed>>

\* SpacedRepetitionCardModel.objects.bulk_create(cards)
JobBulkCreate ==
    /\ procs[JobProc].pc = "bulk_create"
    /\ LET r == insert_cards(cards, new_card_rows("u1", procs[JobProc].ids, now))
       IN  /\ cards' = r.rows
           /\ procs' = [procs EXCEPT ![JobProc].pc = "done", ![JobProc].err = r.err]
    /\ last' = Op("job_bulk_create", procs'[JobProc].err)
    /\ UNCHANGED <<sessions, progress, events, cardRaceFixed>>

CardRaceNext ==
    \/ \E p \in SubmitProcs : SubmitLoadSession(p)
    \/ \E p \in SubmitProcs : SubmitSaveSession(p)
    \/ \E p \in SubmitProcs : SubmitGetCard(p)
    \/ \E p \in SubmitProcs : SubmitCreateCard(p)
    \/ \E p \in SubmitProcs : SubmitReviewCard(p)
    \/ \E p \in SubmitProcs : SubmitRecord(p)
    \/ JobSelectQuestions
    \/ JobBulkCreate

CardRaceSpec == CardRaceInit /\ [][CardRaceNext]_vars

(***************************************************************************)
(* Daily-limit specification: SpacedRepetitionService.get_next_card and    *)
(* review_card on the cards the daily job made for u1, with a small        *)
(* daily_limit argument and the clock advancing by half days.              *)
(***************************************************************************)
MaxLimitDays == 1

HalfDayMinutes == 720

DailyLimits == {1, 2}

NextCardReq(limit, cid) ==
    [op |-> "get_next_card", err |-> "none", daily_limit |-> limit, card_id |-> cid]

DailyLimitInit ==
    /\ PlatformIdle
    /\ now = 0
    /\ last = Op("init", "none")
    /\ session = NoSession
    /\ completions = <<>>
    /\ card = NoCard
    /\ reviewsDone = 0
    /\ sessions = <<>>
    /\ cards \in {new_card_rows("u1", ids, 0) : ids \in {<<"q1">>, <<"q1", "q2">>}}
    /\ progress = NoProgress
    /\ events = 0
    /\ procs = <<>>

\* sr_service.get_next_card(user_id, facet_id, daily_limit)
GetNextCard ==
    /\ \E limit \in DailyLimits :
           LET ids == get_next_card(cards, "u1", limit, now)
           IN  IF ids = {} THEN last' = NextCardReq(limit, NoId)
               ELSE \E i \in ids : last' = NextCardReq(limit, i)
    /\ UNCHANGED <<now, session, completions, platformVars, card, reviewsDone, useCaseVars>>

\* sr_service.review_card(card_id, rating, time_seconds)
ServiceReviewCardRow ==
    /\ reviewsDone < MaxReviews
    /\ \E cid \in DOMAIN cards, rating \in Ratings :
           LET r == service_review_card(cards[cid], rating, now)
           IN  /\ cards' = [cards EXCEPT ![cid] = r.c]
               /\ last' = CardReq(r.err, "u1", cid, rating)
               /\ reviewsDone' = IF r.err = "none" THEN reviewsDone + 1 ELSE reviewsDone
    /\ UNCHANGED <<now, session, completions, platformVars, card, sessions, progress, events, procs>>

HalfDayTick ==
    /\ now + HalfDayMinutes <= MaxLimitDays * MinutesPerDay
    /\ now' = now + HalfDayMinutes
    /\ last' = Op("tick", "none")
    /\ UNCHANGED <<session, completions, platformVars, card, reviewsDone, useCaseVars>>

DailyLimitNext ==
    \/ GetNextCard
    \/ ServiceReviewCardRow
    \/ HalfDayTick

DailyLimitSpec == DailyLimitInit /\ [][DailyLimitNext]_vars

(***************************************************************************)
(* Authentication: the auth use cases (application/use_cases/auth), the    *)
(* REST views of interfaces/rest/auth_helpers.py and the FastAPI           *)
(* dependencies of interfaces/api/dependencies.py.  A token is the record  *)
(* of its claims; `scheme` tells the PyJWT tokens of the use cases (claims *)
(* sub, type) from the simplejwt tokens of the REST views (claims user_id, *)
(* token_type), which neither side decodes for the other.                  *)
(***************************************************************************)
MaxAuthTime == 30
AuthTickMinutes == 15
MaxTokens == 4

AccessTokenExpireMinutes == 30
RefreshTokenExpireMinutes == 10080
PasswordResetExpireMinutes == 1440

UserStatuses == {"pending", "active", "suspended", "banned", "deleted"}
Passwords == {"p0", "p1"}
TokenTypes == {"access", "refresh", "password_reset", "email_verification"}

Token(sub, type, scheme, exp) == [sub |-> sub, type |-> type, scheme |-> scheme, exp |-> exp]

NoToken == Token("none", "none", "none", 0)

\* the users that register while the model runs
RegisteringUsers == {"u1", "u2"}
\* a token without an exp claim
NoExpiry == 0

AuthReq(name, err, user, tok) == [op |-> name, err |-> err, user |-> user, token |-> tok]

\* UserStatus.can_login
can_login(u) == u.status = "active"

\* jwt.decode(token, secret_key, algorithms): signature and expiry only
jwt_decode(tok, t) == tok.scheme = "api" /\ t < tok.exp

\* simplejwt RefreshToken(token): signature, expiry and token_type = refresh
RefreshToken_verify(tok, t) == tok.scheme = "rest" /\ t < tok.exp /\ tok.type = "refresh"

\* AuthenticateUserUseCase._generate_tokens / RefreshTokenUseCase._generate_tokens
generate_tokens(u, t) ==
    {Token(u, "access", "api", t + AccessTokenExpireMinutes),
     Token(u, "refresh", "api", t + RefreshTokenExpireMinutes)}

\* create_user_tokens: RefreshToken.for_user(user) and its access_token
create_user_tokens(u, t) ==
    {Token(u, "access", "rest", t + AccessTokenExpireMinutes),
     Token(u, "refresh", "rest", t + RefreshTokenExpireMinutes)}

authFixed == <<session, completions, card, reviewsDone, useCaseVars,
               cache, requests, unlocked, hints, serviceVars>>

AuthInit ==
    /\ now = 0
    /\ last = AuthReq("init", "none", "none", NoToken)
    /\ session = NoSession
    /\ completions = <<>>
    /\ card = NoCard
    /\ reviewsDone = 0
    /\ EmptyDatabase
    /\ users \in [{"u1"} -> [status : {"pending", "active"}, password : {"p0"},
                              email_verified : BOOLEAN]]
    /\ tokens = {}
    /\ cache = <<>>
    /\ requests = <<>>
    /\ unlocked = <<>>
    /\ hints = <<>>
    /\ ServicesIdle

\* AuthenticateUserUseCase.execute
AuthenticateUser ==
    /\ \E u \in DOMAIN users, pw \in Passwords :
           LET err == IF pw # users[u].password THEN "invalid_credentials"
                      ELSE IF ~can_login(users[u]) THEN "business_rule"
                      ELSE "none"
               issued == IF err = "none" THEN generate_tokens(u, now) ELSE {}
           IN  /\ Cardinality(tokens \cup issued) <= MaxTokens
               /\ tokens' = tokens \cup issued
               /\ last' = AuthReq("login", err, u, NoToken)
    /\ UNCHANGED <<now, users, authFixed>>

\* login_view (REST)
login_view ==
    /\ \E u \in DOMAIN users, pw \in Passwords :
           LET err == IF pw # users[u].password THEN "invalid_credentials"
                      ELSE IF users[u].status # "active" THEN "not_active"
                      ELSE "none"
               issued == IF err = "none" THEN create_user_tokens(u, now) ELSE {}
           IN  /\ Cardinality(tokens \cup issued) <= MaxTokens
               /\ tokens' = tokens \cup issued
               /\ last' = AuthReq("rest_login", err, u, NoToken)
    /\ UNCHANGED <<now, users, authFixed>>

\* RefreshTokenUseCase.execute
RefreshTokenUseCase ==
    /\ \E tok \in tokens :
           LET err == IF ~jwt_decode(tok, now) THEN "invalid_token"
                      ELSE IF tok.type # "refresh" THEN "invalid_token_type"
                      ELSE IF ~can_login(users[tok.sub]) THEN "business_rule"
                      ELSE "none"
               issued == IF err = "none" THEN generate_tokens(tok.sub, now) ELSE {}
           IN  /\ Cardinality(tokens \cup issued) <= MaxTokens
               /\ tokens' = tokens \cup issued
               /\ last' = AuthReq("refresh", err, tok.sub, tok)
    /\ UNCHANGED <<now, users, authFixed>>

\* refresh_token_view (REST): RefreshToken(refresh_token).access_token
refresh_token_view ==
    /\ \E tok \in tokens :
           LET err == IF ~RefreshToken_verify(tok, now) THEN "invalid_token" ELSE "none"
               issued == IF err = "none"
                         THEN {Token(tok.sub, "access", "rest", now + AccessTokenExpireMinutes)}
                         ELSE {}
           IN  /\ Cardinality(tokens \cup issued) <= MaxTokens
               /\ tokens' = tokens \cup issued
               /\ last' = AuthReq("rest_refresh", err, tok.sub, tok)
    /\ UNCHANGED <<now, users, authFixed>>

\* a route behind Depends(get_current_user_id): the learning routes
get_current_user_id ==
    /\ \E tok \in tokens :
           LET err == IF ~jwt_decode(tok, now) THEN "unauthorized" ELSE "none"
           IN  last' = AuthReq("api_request", err, tok.sub, tok)
    /\ UNCHANGED <<now, users, tokens, authFixed>>

\* a route behind Depends(get_current_user): GET /users/me
get_current_user ==
    /\ \E tok \in tokens :
           LET err == IF ~jwt_decode(tok, now) THEN "unauthorized"
                      ELSE IF ~can_login(users[tok.sub]) THEN "forbidden"
                      ELSE "none"
           IN  last' = AuthReq("api_request_user", err, tok.sub, tok)
    /\ UNCHANGED <<now, users, tokens, authFixed>>

\* ResetPasswordUseCase.execute: the reset token is mailed to the user
ResetPassword ==
    /\ \E u \in DOMAIN users :
           LET issued == IF can_login(users[u])
                         THEN {Token(u, "password_reset", "api", now + PasswordResetExpireMinutes)}
                         ELSE {}
           IN  /\ Cardinality(tokens \cup issued) <= MaxTokens
               /\ tokens' = tokens \cup issued
               /\ last' = AuthReq("reset_password", "none", u, NoToken)
    /\ UNCHANGED <<now, users, authFixed>>

\* ResetPasswordUseCase.confirm_reset
confirm_reset ==
    /\ \E tok \in tokens, pw \in Passwords :
           LET err == IF ~jwt_decode(tok, now) THEN "invalid_token"
                      ELSE IF tok.type # "password_reset" THEN "invalid_token_type"
                      ELSE IF ~can_login(users[tok.sub]) THEN "business_rule"
                      ELSE "none"
           IN  /\ users' = IF err = "none"
                           THEN [users EXCEPT ![tok.sub].password = pw]
                           ELSE users
               /\ last' = AuthReq("confirm_reset", err, tok.sub, tok)
    /\ UNCHANGED <<now, tokens, authFixed>>

\* RegisterUserUseCase.execute: the user is saved as pending and is mailed
\* verification_token = str(uuid4()), a token that is not a JWT and carries no
\* claims (sub names the user it was mailed to)
RegisterUser ==
    /\ \E u \in RegisteringUsers, pw \in Passwords :
           LET err == IF u \in DOMAIN users THEN "duplicate" ELSE "none"
               issued == IF err = "none" THEN {Token(u, "none", "uuid", NoExpiry)} ELSE {}
           IN  /\ Cardinality(tokens \cup issued) <= MaxTokens
               /\ tokens' = tokens \cup issued
               /\ users' = IF err = "none"
                           THEN users @@ (u :> [status |-> "pending", password |-> pw,
                                               email_verified |-> FALSE])
                           ELSE users
               /\ last' = AuthReq("register", err, u, NoToken)
    /\ UNCHANGED <<now, authFixed>>

\* User.verify_email
verify_email(u) ==
    [u EXCEPT !.email_verified = TRUE,
              !.status = IF @ = "pending" THEN "active" ELSE @]

\* VerifyEmailUseCase.execute
VerifyEmail ==
    /\ \E tok \in tokens :
           LET err == IF ~jwt_decode(tok, now) THEN "invalid_token"
                      ELSE IF tok.type # "email_verification" THEN "invalid_token_type"
                      ELSE "none"
           IN  /\ users' = IF err = "none" /\ ~users[tok.sub].email_verified
                           THEN [users EXCEPT ![tok.sub] = verify_email(@)]
                           ELSE users
               /\ last' = AuthReq("verify_email", err, tok.sub, tok)
    /\ UNCHANGED <<now, tokens, authFixed>>

\* UserViewSet.suspend / activate and the admin's edit of UserModel.status
SetUserStatus ==
    /\ \E u \in DOMAIN users, st \in UserStatuses :
           /\ st # users[u].status
           /\ users' = [users EXCEPT ![u].status = st]
           /\ last' = AuthReq("set_status", "none", u, NoToken)
    /\ UNCHANGED <<now, tokens, authFixed>>

AuthTick ==
    /\ now + AuthTickMinutes <= MaxAuthTime
    /\ now' = now + AuthTickMinutes
    /\ last' = AuthReq("tick", "none", "none", NoToken)
    /\ UNCHANGED <<users, tokens, authFixed>>

AuthNext ==
    \/ AuthenticateUser
    \/ login_view
    \/ RefreshTokenUseCase
    \/ refresh_token_view
    \/ get_current_user_id
    \/ get_current_user
    \/ ResetPassword
    \/ confirm_reset
    \/ VerifyEmail
    \/ SetUserStatus
    \/ AuthTick

AuthSpec == AuthInit /\ [][AuthNext]_vars

\* registration followed by the steps a new user takes: verifying the email
\* address and logging in
RegistrationNext ==
    \/ RegisterUser
    \/ VerifyEmail
    \/ AuthenticateUser
    \/ AuthTick

RegistrationSpec == AuthInit /\ [][RegistrationNext]_vars

(***************************************************************************)
(* Access specification: two authenticated learners.  u1 has started a     *)
(* session and owns every session and card; u1 and u2 both send the        *)
(* learning requests, with whatever session or card id they like.          *)
(***************************************************************************)
Callers == {"u1", "u2"}
HintLevels == 1..3

\* len(question.metadata.hints) of the stored questions
available_hints(q) == IF q = "q1" THEN 2 ELSE 0

HintEvent(u, sid, q, level) ==
    [user_id |-> u, session_id |-> sid, question_id |-> q, hint_level |-> level]

HintReq(err, u, sid, q, level, used) ==
    [op |-> "request_hint", err |-> err, user |-> u, session_id |-> sid,
     question_id |-> q, hint_level |-> level, hints_used |-> used]

\* RequestHintUseCase._count_hints_used
count_hints_used(rows, u, q, sid) ==
    Cardinality({i \in DOMAIN rows :
        rows[i].session_id = sid /\ rows[i].question_id = q /\ rows[i].user_id = u})

\* RequestHintUseCase.execute
RequestHintAs(u) ==
    /\ \E sid \in 1..MaxSessions, q \in Questions \cup {UnknownQuestion},
          level \in HintLevels :
           LET s == get_by_id(sessions, sid, NoSession)
               used == count_hints_used(hints, u, q, sid)
               err == IF s = NoSession \/ ~owned_by(s, u) THEN "EntityNotFound"
                      ELSE IF ~is_active(s) THEN "BusinessRuleViolation"
                      ELSE IF q \notin Questions THEN "EntityNotFound"
                      ELSE IF /\ s.current_question_id # q
                              /\ ~InSeq(q, s.answered_questions)
                              /\ ~InSeq(q, s.question_queue)
                           THEN "not_in_session"
                      ELSE IF available_hints(q) = 0 THEN "no_hints"
                      ELSE IF level <= used THEN "already_used"
                      ELSE IF level > available_hints(q) THEN "not_available"
                      ELSE "none"
           IN  /\ hints' = IF err = "none" THEN Append(hints, HintEvent(u, sid, q, level))
                           ELSE hints
               /\ last' = HintReq(err, u, sid, q, level, used)
    /\ UNCHANGED <<now, session, completions, card, reviewsDone, useCaseVars,
                   users, tokens, cache, requests, unlocked, serviceVars>>

\* u1 has started a session on facet f1 and has the generated card of q1
AccessInit ==
    /\ PlatformIdle
    /\ now = 0
    /\ last = Op("init", "none")
    /\ session = NoSession
    /\ completions = <<>>
    /\ card = NoCard
    /\ reviewsDone = 0
    /\ \E qlimit \in StartQuestionLimits :
           \E r \in StartLearningSessionOutcomes(<<>>, "u1", "f1", qlimit, NoLimit, 0) :
               sessions = r.rows
    /\ cards = new_card_rows("u1", <<"q1">>, 0)
    /\ progress = NoProgress
    /\ events = 0
    /\ procs = <<>>

AccessGetNextQuestion == \E u \in Callers : GetNextQuestionAs(u)

AccessSubmitAnswer == \E u \in Callers : SubmitAnswerAs(u)

AccessRequestHint == \E u \in Callers : RequestHintAs(u)

AccessEndSession == \E u \in Callers : EndSessionAs(u)

AccessReviewCard == reviewsDone < MaxCardRequests /\ \E u \in Callers : ReviewCardAs(u)

AccessNext ==
    \/ AccessGetNextQuestion
    \/ AccessSubmitAnswer
    \/ AccessRequestHint
    \/ AccessEndSession
    \/ AccessReviewCard

AccessSpec == AccessInit /\ [][AccessNext]_vars

(***************************************************************************)
(* Cache specification: DjangoRepository.get_by_id and save on the session *)
(* row with id 1, split at their awaits, next to the cleanup job, which    *)
(* writes the row through the ORM.  `cache` maps the row id to the cached  *)
(* model, NoSession when the key is absent.                                *)
(***************************************************************************)
ReadProc == "read1"
EndProc == "end1"
CacheProcs == {ReadProc, EndProc}

IdleCache == [pc |-> "idle", entity |-> NoSession]

CacheRead(p, path, found) ==
    [op |-> "get_by_id", err |-> "none", proc |-> p, path |-> path, result |-> found]

\* where get_by_id's caller goes on: EndSessionUseCase saves, a reader is done
AfterGet(p) == IF p = EndProc THEN "loaded" ELSE "idle"

CacheInit ==
    /\ now = 0
    /\ last = Op("init", "none")
    /\ session = NoSession
    /\ completions = <<>>
    /\ card = NoCard
    /\ reviewsDone = 0
    /\ sessions = save_session(<<>>, 1, NewSession("u1", NoFacet, NoLimit, NoLimit, 0), 0)
    /\ cards = <<>>
    /\ progress = NoProgress
    /\ events = 0
    /\ procs = [p \in CacheProcs |-> IdleCache]
    /\ users = <<>>
    /\ tokens = {}
    /\ cache = <<NoSession>>
    /\ requests = <<>>
    /\ unlocked = <<>>
    /\ hints = <<>>
    /\ ServicesIdle

cacheFixed == <<session, completions, card, reviewsDone, cards, progress, events,
                users, tokens, requests, unlocked, hints, serviceVars>>

\* get_by_id: await self.cache.get(cache_key), and the return on a hit
CacheLookup(p) ==
    /\ procs[p].pc = "idle"
    /\ IF cache[1] # NoSession
       THEN /\ procs' = [procs EXCEPT ![p] = [pc |-> AfterGet(p), entity |-> cache[1]]]
            /\ last' = CacheRead(p, "cache", cache[1])
       ELSE /\ procs' = [procs EXCEPT ![p] = [pc |-> "db", entity |-> NoSession]]
            /\ last' = Op("cache_miss", "none")
    /\ UNCHANGED <<now, sessions, cache, cacheFixed>>

\* get_by_id: await self._get_model_by_id(id)
DbRead(p) ==
    /\ procs[p].pc = "db"
    /\ procs' = [procs EXCEPT ![p] = [pc |-> "set", entity |-> sessions[1]]]
    /\ last' = Op("db_read", "none")
    /\ UNCHANGED <<now, sessions, cache, cacheFixed>>

\* get_by_id: await self.cache.set(cache_key, model, ttl=3600), and the return
CacheSet(p) ==
    /\ procs[p].pc = "set"
    /\ cache' = [cache EXCEPT ![1] = procs[p].entity]
    /\ procs' = [procs EXCEPT ![p].pc = AfterGet(p)]
    /\ last' = CacheRead(p, "db", procs[p].entity)
    /\ UNCHANGED <<now, sessions, cacheFixed>>

\* EndSessionUseCase.execute after get_by_id, up to save's await self._update_model
SaveUpdate(p) ==
    /\ procs[p].pc = "loaded"
    /\ IF ~is_active(procs[p].entity)
       THEN /\ procs' = [procs EXCEPT ![p] = IdleCache]
            /\ last' = Op("end_session", "BusinessRuleViolation")
            /\ UNCHANGED sessions
       ELSE /\ sessions' = save_session(sessions, 1, complete(procs[p].entity, now).s, now)
            /\ procs' = [procs EXCEPT ![p].pc = "invalidate"]
            /\ last' = Op("update_model", "none")
    /\ UNCHANGED <<now, cache, cacheFixed>>

\* save: await self.cache.delete(cache_key), and the return
SaveInvalidate(p) ==
    /\ procs[p].pc = "invalidate"
    /\ cache' = [cache EXCEPT ![1] = NoSession]
    /\ procs' = [procs EXCEPT ![p] = IdleCache]
    /\ last' = Op("end_session", "none")
    /\ UNCHANGED <<now, sessions, cacheFixed>>

\* the entry's ttl runs out, or the cache evicts it
CacheExpire ==
    /\ cache[1] # NoSession
    /\ cache' = [cache EXCEPT ![1] = NoSession]
    /\ last' = Op("cache_expire", "none")
    /\ UNCHANGED <<now, sessions, procs, cacheFixed>>

CacheTick ==
    /\ now + IdleTickMinutes <= MaxTime
    /\ now' = now + IdleTickMinutes
    /\ last' = Op("tick", "none")
    /\ UNCHANGED <<sessions, procs, cache, cacheFixed>>

CacheNext ==
    \/ \E p \in CacheProcs : CacheLookup(p)
    \/ \E p \in CacheProcs : DbRead(p)
    \/ \E p \in CacheProcs : CacheSet(p)
    \/ SaveUpdate(EndProc)
    \/ SaveInvalidate(EndProc)
    \/ CleanupExpiredSessions
    \/ CacheExpire
    \/ CacheTick

CacheSpec == CacheInit /\ [][CacheNext]_vars

(***************************************************************************)
(* Rate-limit specification: RateLimitMiddleware.dispatch, one request at  *)
(* a time (dispatch does not await between its check and its append).      *)
(* Here `now` is time.time() in seconds and `requests` is                  *)
(* self.requests: client ip -> the timestamps of the admitted requests.    *)
(***************************************************************************)
MaxRateTime == 60
RateTickSeconds == 30
MaxOtherRequests == 1

RequestsPerMinute == 60
RequestsPerHour == 1000
WindowSeconds == 60
HourSeconds == 3600
RetryAfterSeconds == 60
NoRetryAfter == 0

ClientIps == {"ip1", "ip2"}
Paths == {"/health", "/api"}

SelectSeq_after(ts, bound) == SelectSeq(ts, LAMBDA x : x > bound)

\* RateLimitMiddleware._clean_old_timestamps
clean_old_timestamps(ts, t) == SelectSeq_after(ts, t - HourSeconds)

\* a limiter that admits one request more per minute
is_rate_limited_late(ts, t) ==
    \/ Len(SelectSeq_after(ts, t - WindowSeconds)) > RequestsPerMinute
    \/ Len(ts) >= RequestsPerHour

\* RateLimitMiddleware._is_rate_limited
is_rate_limited(ts, t) ==
    \/ Len(SelectSeq_after(ts, t - WindowSeconds)) >= RequestsPerMinute
    \/ Len(ts) >= RequestsPerHour

RateReq(ip, path, status, retry_after, passed_on) ==
    [op |-> "request", err |-> "none", client_ip |-> ip, path |-> path,
     status |-> status, retry_after |-> retry_after, passed_on |-> passed_on]

RateInit ==
    /\ now = 0
    /\ last = Op("init", "none")
    /\ session = NoSession
    /\ completions = <<>>
    /\ card = NoCard
    /\ reviewsDone = 0
    /\ EmptyDatabase
    /\ users = <<>>
    /\ tokens = {}
    /\ cache = <<>>
    /\ requests = [ip \in ClientIps |-> <<>>]
    /\ unlocked = <<>>
    /\ hints = <<>>
    /\ ServicesIdle

rateFixed == <<session, completions, card, reviewsDone, useCaseVars,
               users, tokens, cache, unlocked, hints, serviceVars>>

\* RateLimitMiddleware.dispatch
dispatch ==
    /\ \E ip \in ClientIps, path \in Paths :
           LET cleaned == clean_old_timestamps(requests[ip], now)
           IN  /\ ip # "ip1" => Len(requests[ip]) < MaxOtherRequests
               /\ IF path = "/health" THEN
                      /\ last' = RateReq(ip, path, 200, NoRetryAfter, TRUE)
                      /\ UNCHANGED requests
                  ELSE IF is_rate_limited(cleaned, now) THEN
                      /\ requests' = [requests EXCEPT ![ip] = cleaned]
                      /\ last' = RateReq(ip, path, 429, RetryAfterSeconds, FALSE)
                  ELSE
                      /\ requests' = [requests EXCEPT ![ip] = Append(cleaned, now)]
                      /\ last' = RateReq(ip, path, 200, NoRetryAfter, TRUE)
    /\ UNCHANGED <<now, rateFixed>>

RateTick ==
    /\ now + RateTickSeconds <= MaxRateTime
    /\ now' = now + RateTickSeconds
    /\ last' = Op("tick", "none")
    /\ UNCHANGED <<requests, rateFixed>>

RateNext ==
    \/ dispatch
    \/ RateTick

RateSpec == RateInit /\ [][RateNext]_vars

(***************************************************************************)
(* Achievement specification: AchievementService.check_achievements runs   *)
(* of u1, split at the await between loading and saving UserProgress, next *)
(* to ReviewCardUseCase._update_progress, which loads and saves the same   *)
(* row.  `unlocked` is the stored UserProgress of u1 as far as the service *)
(* reads it, with the achievement_unlocked events written so far and the   *)
(* set of names the stored list has held.                                  *)
(***************************************************************************)
ACHIEVEMENTS ==
    << [name |-> "first_question", points |-> 10, criteria |-> [questions_answered |-> 1]],
       [name |-> "century_club", points |-> 50, criteria |-> [questions_answered |-> 100]],
       [name |-> "thousand_answers", points |-> 200,
        criteria |-> [questions_answered |-> 1000]],
       [name |-> "week_warrior", points |-> 25, criteria |-> [streak_days |-> 7]],
       [name |-> "monthly_master", points |-> 100, criteria |-> [streak_days |-> 30]],
       [name |-> "perfect_session", points |-> 30,
        criteria |-> [session_accuracy |-> 100, min_questions |-> 10]],
       [name |-> "speed_demon", points |-> 40,
        criteria |-> [questions_in_time |-> [count |-> 10, minutes |-> 5]]],
       [name |-> "night_owl", points |-> 15, criteria |-> [study_time |-> "night"]],
       [name |-> "early_bird", points |-> 15, criteria |-> [study_time |-> "early"]],
       [name |-> "facet_master", points |-> 75, criteria |-> [facets_mastered |-> 1]],
       [name |-> "topic_expert", points |-> 150, criteria |-> [topics_completed |-> 1]],
       [name |-> "polymath", points |-> 100, criteria |-> [unique_topics |-> 5]] >>

Has(criteria, key) == key \in DOMAIN criteria

TriggerEvent(type, accuracy, questions, seconds) ==
    [event_type |-> type, accuracy_rate |-> accuracy, total_questions |-> questions,
     total_time_seconds |-> seconds]

NoEvent == TriggerEvent("none", 0, 0, 0)

\* the trigger_event arguments: none, a question_answered or session_started
\* event, and session_completed events around the thresholds
TriggerEvents ==
    {NoEvent, TriggerEvent("question_answered", 0, 0, 0),
     TriggerEvent("session_completed", 100, 10, 300),
     TriggerEvent("session_completed", 90, 10, 301)}

\* datetime.now().hour
Hours == {3, 5, 12}

\* AchievementService._check_criteria, test by test
check_criteria(a, p, ev, hour) ==
    LET c == a.criteria
    IN  IF Has(c, "questions_answered")
              /\ p.total_questions_answered < c.questions_answered THEN FALSE
        ELSE IF Has(c, "streak_days") /\ p.max_streak < c.streak_days THEN FALSE
        ELSE IF Has(c, "session_accuracy") /\ ev # NoEvent
                /\ (IF ev.event_type = "session_completed"
                    THEN \/ ev.accuracy_rate < c.session_accuracy
                         \/ ev.total_questions < c.min_questions
                    ELSE TRUE) THEN FALSE
        ELSE IF Has(c, "questions_in_time") /\ ev # NoEvent
                /\ (IF ev.event_type = "session_completed"
                    THEN \/ ev.total_questions < c.questions_in_time.count
                         \/ ev.total_time_seconds > c.questions_in_time.minutes * 60
                    ELSE TRUE) THEN FALSE
        ELSE IF Has(c, "study_time") /\ ev # NoEvent
                /\ (IF ev.event_type \in {"session_started", "question_answered"}
                    THEN \/ c.study_time = "night" /\ ~(0 <= hour /\ hour < 5)
                         \/ c.study_time = "early" /\ ~(4 <= hour /\ hour < 6)
                    ELSE TRUE) THEN FALSE
        ELSE IF Has(c, "facets_mastered") /\ p.mastered_count < c.facets_mastered
             THEN FALSE
        ELSE TRUE

\* the loop of check_achievements over ACHIEVEMENTS: the names it unlocks, in order
newly_unlocked(p, ev, hour) ==
    SelectSeq(ACHIEVEMENTS,
              LAMBDA a : /\ ~InSeq(a.name, p.achievements_unlocked)
                         /\ check_criteria(a, p, ev, hour))

RECURSIVE SumPoints(_)
SumPoints(as) == IF as = <<>> THEN 0 ELSE Head(as).points + SumPoints(Tail(as))

Names(as) == [i \in DOMAIN as |-> as[i].name]

\* the entity after the loop: names appended, points added
with_unlocked(p, as) ==
    [p EXCEPT !.achievements_unlocked = @ \o Names(as),
              !.achievement_points = @ + SumPoints(as)]

CheckProcs == {"check1", "check2"}
ProgressProc == "review1"

IdleCheck == [pc |-> "idle", entity |-> <<>>, seen |-> {}]

\* UserProgress(user_id) and the rows of a learner who answered `answered`
\* questions, with the streak and mastery of the facet progress rows, and what
\* the learner has completed in the content tree (no field of UserProgress)
NewUserProgress(answered, streak, mastered, topics, unique) ==
    [achievements_unlocked |-> <<>>, achievement_points |-> 0,
     total_questions_answered |-> answered, max_streak |-> streak,
     mastered_count |-> mastered, topics_completed |-> topics, unique_topics |-> unique]

CheckReq(p, ev, hour, before, as, seen) ==
    [op |-> "check_achievements", err |-> "none", proc |-> p, trigger_event |-> ev,
     hour |-> hour, progress |-> before, unlocked |-> as, stored_before_run |-> seen]

AchievementInit ==
    /\ now = 0
    /\ last = Op("init", "none")
    /\ session = NoSession
    /\ completions = <<>>
    /\ card = NoCard
    /\ reviewsDone = 0
    /\ sessions = <<>>
    /\ cards = <<>>
    /\ progress = NoProgress
    /\ events = 0
    /\ procs = [p \in CheckProcs \cup {ProgressProc} |-> IdleCheck]
    /\ users = <<>>
    /\ tokens = {}
    /\ cache = <<>>
    /\ requests = <<>>
    /\ \E answered \in {0, 1, 100}, streak \in {0, 7}, mastered \in {0, 1},
          topics \in {0, 1}, unique \in {0, 5} :
           unlocked = [row |-> NewUserProgress(answered, streak, mastered, topics, unique),
                       events |-> <<>>, stored |-> {}]
    /\ hints = <<>>
    /\ ServicesIdle

achievementFixed == <<now, session, completions, card, reviewsDone, sessions, cards, progress, events,
                      users, tokens, cache, requests, hints, serviceVars>>

\* await self.progress_repo.get_user_progress(user_id)
LoadProgress(p) ==
    /\ procs[p].pc = "idle"
    /\ procs' = [procs EXCEPT ![p] = [pc |-> "loaded", entity |-> unlocked.row,
                                      seen |-> unlocked.stored]]
    /\ last' = Op("get_user_progress", "none")
    /\ UNCHANGED <<unlocked, achievementFixed>>

\* check_achievements from the loop on: the unlock events and the save
CheckAchievements(p) ==
    /\ procs[p].pc = "loaded"
    /\ \E ev \in TriggerEvents, hour \in Hours :
           LET before == procs[p].entity
               as == newly_unlocked(before, ev, hour)
               after == with_unlocked(before, as)
           IN  /\ unlocked' =
                      IF as = <<>> THEN unlocked
                      ELSE [row |-> after,
                            events |-> unlocked.events \o Names(as),
                            stored |-> unlocked.stored
                                          \cup {as[i].name : i \in DOMAIN as}]
               /\ last' = CheckReq(p, ev, hour, before, Names(as), procs[p].seen)
    /\ procs' = [procs EXCEPT ![p] = [pc |-> "done", entity |-> <<>>, seen |-> {}]]
    /\ UNCHANGED achievementFixed

\* ReviewCardUseCase._update_progress: total_questions_answered += 1 and save
UpdateProgress(p) ==
    /\ procs[p].pc = "loaded"
    /\ unlocked' = [unlocked EXCEPT
                       !.row = [procs[p].entity EXCEPT !.total_questions_answered = @ + 1]]
    /\ procs' = [procs EXCEPT ![p] = [pc |-> "done", entity |-> <<>>, seen |-> {}]]
    /\ last' = Op("update_progress", "none")
    /\ UNCHANGED achievementFixed

AchievementNext ==
    \/ \E p \in CheckProcs \cup {ProgressProc} : LoadProgress(p)
    \/ \E p \in CheckProcs : CheckAchievements(p)
    \/ UpdateProgress(ProgressProc)

AchievementSpec == AchievementInit /\ [][AchievementNext]_vars

(***************************************************************************)
(* Event bus specification: DjangoEventBus, the in-process bus.  publish   *)
(* applies the middleware chain, starts one task per subscribed handler    *)
(* and awaits asyncio.gather with return_exceptions=True; the tasks    *)
(* run interleaved, each one step of _execute_handler at a time.           *)
(***************************************************************************)
MaxHandlers == 3
MaxMiddleware == 1
MaxPublishes == 2

HandlerNames == {"h1", "h2"}
\* what a middleware does with an event: hand it on, raise, or return None
MiddlewareKinds == {"pass", "raises", "veto"}
TaskStates == {"pending", "running", "completed", "failed"}

Task(h) == [handler |-> h, state |-> "pending"]

\* the bus after __init__: no handlers, no middleware, nothing published
NewBus == [handlers |-> <<>>, middleware |-> <<>>, tasks |-> <<>>,
           publish |-> "idle", published |-> 0]

\* _apply_middleware over the chain: the event handed on, or None once a
\* middleware returns None; a middleware that raises leaves the event as it was
RECURSIVE apply_middleware(_)
apply_middleware(chain) ==
    IF chain = <<>> THEN "event"
    ELSE IF Head(chain) = "veto" THEN "none"
    ELSE apply_middleware(Tail(chain))

\* asyncio.gather that hands the first exception of a task to the awaiter
gather_propagating(tasks) ==
    IF \E i \in DOMAIN tasks : tasks[i].state = "failed" THEN "raise"
    ELSE IF \A i \in DOMAIN tasks : tasks[i].state = "completed" THEN "results"
    ELSE "pending"

\* asyncio.gather with return_exceptions=True: the results once every task
\* has finished, exceptions among them
gather(tasks) ==
    IF \A i \in DOMAIN tasks : tasks[i].state \in {"completed", "failed"} THEN "results"
    ELSE "pending"

BusReq(name, outcome) == [op |-> name, err |-> outcome]

busFixed == <<now, session, completions, card, reviewsDone, useCaseVars,
              users, tokens, cache, requests, unlocked, hints,
              jobRows, questionRows, hierarchy, memory>>

BusInit ==
    /\ now = 0
    /\ last = Op("init", "none")
    /\ session = NoSession
    /\ completions = <<>>
    /\ card = NoCard
    /\ reviewsDone = 0
    /\ sessions = <<>>
    /\ cards = <<>>
    /\ progress = NoProgress
    /\ events = 0
    /\ procs = <<>>
    /\ users = <<>>
    /\ tokens = {}
    /\ cache = <<>>
    /\ requests = <<>>
    /\ unlocked = <<>>
    /\ hints = <<>>
    /\ bus = NewBus
    /\ jobRows = <<>>
    /\ questionRows = <<>>
    /\ hierarchy = <<>>
    /\ memory = <<>>

\* DjangoEventBus.subscribe
subscribe(h) ==
    /\ Len(bus.handlers) < MaxHandlers
    /\ bus' = [bus EXCEPT !.handlers = Append(@, h)]
    /\ last' = BusReq("subscribe", "none")
    /\ UNCHANGED busFixed

\* DjangoEventBus.add_middleware
add_middleware(kind) ==
    /\ Len(bus.middleware) < MaxMiddleware
    /\ bus' = [bus EXCEPT !.middleware = Append(@, kind)]
    /\ last' = BusReq("add_middleware", "none")
    /\ UNCHANGED busFixed

\* DjangoEventBus.publish up to the await of gather: the middleware chain, the
\* early returns on a vetoed event and on no handlers, one task per handler
publish ==
    /\ bus.publish # "gathering"
    /\ bus.published < MaxPublishes
    /\ LET event == apply_middleware(bus.middleware)
       IN  IF event = "none" \/ bus.handlers = <<>>
           THEN /\ bus' = [bus EXCEPT !.publish = "returned", !.tasks = <<>>,
                                      !.published = @ + 1]
                /\ last' = BusReq("publish", "returned")
           ELSE /\ bus' = [bus EXCEPT !.publish = "gathering",
                                      !.tasks = [i \in DOMAIN bus.handlers |-> Task(bus.handlers[i])],
                                      !.published = @ + 1]
                /\ last' = BusReq("publish", "gathering")
    /\ UNCHANGED busFixed

\* a task starts: _execute_handler calls the handler
StartHandler(i) ==
    /\ bus.publish = "gathering"
    /\ bus.tasks[i].state = "pending"
    /\ bus' = [bus EXCEPT !.tasks[i].state = "running"]
    /\ last' = BusReq("start_handler", "none")
    /\ UNCHANGED busFixed

\* _execute_handler: the handler returns, or raises and the exception is logged
\* and raised again out of the task
execute_handler(i) ==
    /\ bus.publish = "gathering"
    /\ bus.tasks[i].state = "running"
    /\ \E outcome \in {"completed", "failed"} :
          /\ bus' = [bus EXCEPT !.tasks[i].state = outcome]
          /\ last' = BusReq("execute_handler", outcome)
    /\ UNCHANGED busFixed

\* publish after the await of gather: the results are logged, publish returns;
\* an exception out of gather is logged and raised again
PublishReturn ==
    /\ bus.publish = "gathering"
    /\ gather(bus.tasks) # "pending"
    /\ LET outcome == IF gather(bus.tasks) = "raise" THEN "raised" ELSE "returned"
       IN  /\ bus' = [bus EXCEPT !.publish = outcome]
           /\ last' = BusReq("publish_return", outcome)
    /\ UNCHANGED busFixed

BusNext ==
    \/ \E h \in HandlerNames : subscribe(h)
    \/ \E kind \in MiddlewareKinds : add_middleware(kind)
    \/ publish
    \/ \E i \in DOMAIN bus.tasks : StartHandler(i)
    \/ \E i \in DOMAIN bus.tasks : execute_handler(i)
    \/ PublishReturn

BusSpec == BusInit /\ [][BusNext]_vars

(***************************************************************************)
(* Distributed event bus specification: CeleryEventBus.  publish imports   *)
(* the task module infrastructure.celery.tasks.event_tasks and calls       *)
(* process_domain_event.delay; the module is not among the task modules of *)
(* the source tree, so both a deployment without it and one with it are    *)
(* covered.  The broker of the job queue goes down and comes back.         *)
(***************************************************************************)
MaxLocalHandlers == 2
MaxCeleryPublishes == 3

\* whether `from infrastructure.celery.tasks.event_tasks import ...` succeeds
TaskModules == {"missing", "present"}
Brokers == {"up", "down"}
\* what a locally subscribed handler does when called
LocalHandlerKinds == {"returns", "raises"}

\* the bus after __init__, in a deployment and with the broker as given
NewCeleryBus(module, broker) ==
    [module |-> module, broker |-> broker, local_handlers |-> <<>>,
     queue |-> 0, delivered |-> 0, publish |-> "idle", published |-> 0]

\* process_domain_event.delay(event_data): the message is handed to the queue,
\* or the call raises the broker's connection error
delay(b) ==
    IF b.broker = "up" THEN [raised |-> FALSE, queue |-> b.queue + 1]
    ELSE [raised |-> TRUE, queue |-> b.queue]

\* _process_locally: every local handler is called in turn, an exception of
\* one is logged and the loop goes on; the number of handlers called
process_locally(b) == Len(b.local_handlers)

CeleryReq(outcome, b, path, called) ==
    [op |-> "celery_publish", err |-> outcome, module |-> b.module, broker |-> b.broker,
     path |-> path, called |-> called]

celeryFixed == <<now, session, completions, card, reviewsDone, useCaseVars,
                 users, tokens, cache, requests, unlocked, hints,
                 jobRows, questionRows, hierarchy, memory>>

CeleryBusInit ==
    /\ now = 0
    /\ last = Op("init", "none")
    /\ session = NoSession
    /\ completions = <<>>
    /\ card = NoCard
    /\ reviewsDone = 0
    /\ sessions = <<>>
    /\ cards = <<>>
    /\ progress = NoProgress
    /\ events = 0
    /\ procs = <<>>
    /\ users = <<>>
    /\ tokens = {}
    /\ cache = <<>>
    /\ requests = <<>>
    /\ unlocked = <<>>
    /\ hints = <<>>
    /\ \E module \in TaskModules, broker \in Brokers : bus = NewCeleryBus(module, broker)
    /\ jobRows = <<>>
    /\ questionRows = <<>>
    /\ hierarchy = <<>>
    /\ memory = <<>>

\* CeleryEventBus.subscribe_local
subscribe_local(kind) ==
    /\ Len(bus.local_handlers) < MaxLocalHandlers
    /\ bus' = [bus EXCEPT !.local_handlers = Append(@, kind)]
    /\ last' = BusReq("subscribe_local", "none")
    /\ UNCHANGED celeryFixed

\* CeleryEventBus.publish: ImportError falls back to _process_locally, any
\* other exception is logged and raised again
celery_publish ==
    /\ bus.published < MaxCeleryPublishes
    /\ IF bus.module = "missing"
       THEN /\ bus' = [bus EXCEPT !.delivered = @ + process_locally(bus),
                                  !.publish = "returned", !.published = @ + 1]
            /\ last' = CeleryReq("returned", bus, "local", process_locally(bus))
       ELSE LET sent == delay(bus)
            IN  IF sent.raised
                THEN /\ bus' = [bus EXCEPT !.publish = "raised", !.published = @ + 1]
                     /\ last' = CeleryReq("raised", bus, "none", 0)
                ELSE /\ bus' = [bus EXCEPT !.queue = sent.queue, !.publish = "returned",
                                           !.published = @ + 1]
                     /\ last' = CeleryReq("returned", bus, "queue", 0)
    /\ UNCHANGED celeryFixed

\* the broker of the job queue becomes unreachable, or reachable again
SetBroker(state) ==
    /\ bus.broker # state
    /\ bus' = [bus EXCEPT !.broker = state]
    /\ last' = BusReq("set_broker", "none")
    /\ UNCHANGED celeryFixed

CeleryBusNext ==
    \/ \E kind \in LocalHandlerKinds : subscribe_local(kind)
    \/ celery_publish
    \/ \E state \in Brokers : SetBroker(state)

CeleryBusSpec == CeleryBusInit /\ [][CeleryBusNext]_vars

(***************************************************************************)
(* Background job specification: the Celery tasks calculate_daily_         *)
(* statistics, generate_daily_review_cards and process_overdue_cards run   *)
(* over the LearningEvent rows, the UserProgress row and the card rows of  *)
(* user u1, in any order and any number of times, while events are written *)
(* and days pass.                                                          *)
(***************************************************************************)
MaxJobDays == 8
JobTickDays == 4
MaxJobEvents == 2
MaxJobRuns == 3

JobNames == {"calculate_daily_statistics", "generate_daily_review_cards",
             "process_overdue_cards"}
JobEventTypes == {"question_answered", "session_completed"}
\* event_data.total_time_seconds of a session_completed event
SessionSeconds == {600, 1200}
SecondsPerMinute == 60

JobEvent(type, seconds, t) == [event_type |-> type, total_time_seconds |-> seconds, created_at |-> t]

NoUserProgressRow == [exists |-> FALSE, total_questions_answered |-> 0,
                      average_session_length_minutes |-> 0]

RECURSIVE SumSeconds(_)
SumSeconds(evs) ==
    IF evs = <<>> THEN 0 ELSE Head(evs).total_time_seconds + SumSeconds(Tail(evs))

\* the events of the user with created_at >= yesterday, of one type
events_since(rows, type, t) ==
    SelectSeq(rows.events, LAMBDA e : e.event_type = type /\ e.created_at >= t - MinutesPerDay)

\* calculate_daily_statistics for user u1: the UserProgress row after the run
calculate_daily_statistics(rows, t) ==
    LET answered == events_since(rows, "question_answered", t)
        completed == events_since(rows, "session_completed", t)
        selected == rows.user_status = "active" /\ (answered # <<>> \/ completed # <<>>)
    IN  IF ~selected THEN rows.progress
        ELSE [exists |-> TRUE,
              total_questions_answered |->
                  rows.progress.total_questions_answered + Len(answered),
              average_session_length_minutes |->
                  IF Len(completed) > 0
                  THEN (SumSeconds(completed) \div Len(completed)) \div SecondsPerMinute
                  ELSE rows.progress.average_session_length_minutes]

\* process_overdue_cards over the card rows
process_overdue_cards(rows, t) == [i \in DOMAIN rows |-> process_overdue_card(rows[i], t)]

jobFixed == <<session, completions, card, reviewsDone, sessions, progress, events, procs,
              users, tokens, cache, requests, unlocked, hints,
              bus, questionRows, hierarchy, memory>>

JobInit ==
    /\ now = 0
    /\ last = Op("init", "none")
    /\ session = NoSession
    /\ completions = <<>>
    /\ card = NoCard
    /\ reviewsDone = 0
    /\ sessions = <<>>
    /\ cards \in {<<>>, <<StoredLowEaseCard>>}
    /\ progress = NoProgress
    /\ events = 0
    /\ procs = <<>>
    /\ users = <<>>
    /\ tokens = {}
    /\ cache = <<>>
    /\ requests = <<>>
    /\ unlocked = <<>>
    /\ hints = <<>>
    /\ bus = <<>>
    /\ \E status \in {"active", "suspended"}, daily_goal \in DailyGoals :
           jobRows = [user_status |-> status, daily_goal |-> daily_goal, events |-> <<>>,
                      progress |-> NoUserProgressRow, runs |-> 0]
    /\ questionRows = <<>>
    /\ hierarchy = <<>>
    /\ memory = <<>>

\* a use case writes a LearningEvent row of u1
RecordEvent ==
    /\ Len(jobRows.events) < MaxJobEvents
    /\ \E type \in JobEventTypes, seconds \in SessionSeconds :
           jobRows' = [jobRows EXCEPT !.events = Append(@, JobEvent(type, seconds, now))]
    /\ last' = Op("record_event", "none")
    /\ UNCHANGED <<now, cards, jobFixed>>

CalculateDailyStatistics ==
    /\ jobRows.runs < MaxJobRuns
    /\ jobRows' = [jobRows EXCEPT !.progress = calculate_daily_statistics(jobRows, now),
                                  !.runs = @ + 1]
    /\ last' = Op("calculate_daily_statistics", "none")
    /\ UNCHANGED <<now, cards, jobFixed>>

\* generate_daily_review_cards: for an active user, cards for the first
\* daily_goal questions the user has no card for
JobGenerateDailyReviewCards ==
    /\ jobRows.runs < MaxJobRuns
    /\ IF jobRows.user_status = "active"
       THEN \E ids \in new_questions(cards, "u1", jobRows.daily_goal) :
                LET r == insert_cards(cards, new_card_rows("u1", ids, now))
                IN  /\ cards' = r.rows
                    /\ last' = Op("generate_daily_review_cards", r.err)
       ELSE /\ cards' = cards
            /\ last' = Op("generate_daily_review_cards", "none")
    /\ jobRows' = [jobRows EXCEPT !.runs = @ + 1]
    /\ UNCHANGED <<now, jobFixed>>

JobProcessOverdueCards ==
    /\ jobRows.runs < MaxJobRuns
    /\ cards' = process_overdue_cards(cards, now)
    /\ jobRows' = [jobRows EXCEPT !.runs = @ + 1]
    /\ last' = Op("process_overdue_cards", "none")
    /\ UNCHANGED <<now, jobFixed>>

JobTick ==
    /\ now + JobTickDays * MinutesPerDay <= MaxJobDays * MinutesPerDay
    /\ now' = now + JobTickDays * MinutesPerDay
    /\ last' = Op("tick", "none")
    /\ UNCHANGED <<cards, jobRows, jobFixed>>

JobNext ==
    \/ RecordEvent
    \/ CalculateDailyStatistics
    \/ JobGenerateDailyReviewCards
    \/ JobProcessOverdueCards
    \/ JobTick

JobSpec == JobInit /\ [][JobNext]_vars

(***************************************************************************)
(* Content hierarchy specification: ensure_hierarchy runs four             *)
(* get_or_create calls (topic, subtopic, leaf, facet) in one transaction.  *)
(* Two calls with the same codes run interleaved, one database statement   *)
(* at a time, under READ COMMITTED: a transaction sees the committed rows  *)
(* and its own, and an INSERT that meets an uncommitted row with the same  *)
(* unique key waits for that transaction to end.                           *)
(***************************************************************************)
Levels == 1..4
NoParent == 0
Committed == "committed"
HierarchyCalls == {"call1", "call2"}
\* topic_code, subtopic_code, leaf_code, facet_code of the two calls
HierarchyCodes == <<"backend", "api", "protocols", "graphql">>

HierarchyRow(level, parent, code, tx) == [level |-> level, parent |-> parent, code |-> code, tx |-> tx]

\* the rows with a unique key, among those a transaction can see
find_rows(rows, tx, level, parent, code) ==
    {i \in DOMAIN rows : /\ rows[i].level = level
                         /\ rows[i].parent = parent
                         /\ rows[i].code = code
                         /\ rows[i].tx \in {Committed, tx}}

\* the rows with a unique key that another transaction has inserted and not committed
pending_rows(rows, tx, level, parent, code) ==
    {i \in DOMAIN rows : /\ rows[i].level = level
                         /\ rows[i].parent = parent
                         /\ rows[i].code = code
                         /\ rows[i].tx \notin {Committed, tx}}

\* INSERT into a table without the unique constraint
insert_row_unchecked(rows, tx, level, parent, code) ==
    [err |-> "none", wait |-> FALSE,
     rows |-> Append(rows, HierarchyRow(level, parent, code, tx)), id |-> Len(rows) + 1]

\* INSERT under unique (code) / unique_together (parent, code)
insert_row(rows, tx, level, parent, code) ==
    IF find_rows(rows, tx, level, parent, code) # {}
    THEN [err |-> "IntegrityError", wait |-> FALSE, rows |-> rows, id |-> NoId]
    ELSE IF pending_rows(rows, tx, level, parent, code) # {}
    THEN [err |-> "none", wait |-> TRUE, rows |-> rows, id |-> NoId]
    ELSE [err |-> "none", wait |-> FALSE,
          rows |-> Append(rows, HierarchyRow(level, parent, code, tx)), id |-> Len(rows) + 1]

\* QuerySet.get_or_create run without interruption on committed rows
get_or_create(rows, level, parent, code) ==
    LET found == find_rows(rows, Committed, level, parent, code)
    IN  IF found # {} THEN [rows |-> rows, id |-> CHOOSE i \in found : TRUE]
        ELSE LET r == insert_row(rows, Committed, level, parent, code)
             IN  [rows |-> r.rows, id |-> r.id]

\* _create_hierarchy_atomic run without interruption: the rows after it and the facet id
ensure_hierarchy(rows, codes) ==
    LET topic == get_or_create(rows, 1, NoParent, codes[1])
        subtopic == get_or_create(topic.rows, 2, topic.id, codes[2])
        leaf == get_or_create(subtopic.rows, 3, subtopic.id, codes[3])
    IN  get_or_create(leaf.rows, 4, leaf.id, codes[4])

\* the rows of the first n levels of a hierarchy, committed
RECURSIVE StoredHierarchy(_, _)
StoredHierarchy(codes, n) ==
    IF n = 0 THEN <<>>
    ELSE Append(StoredHierarchy(codes, n - 1), HierarchyRow(n, n - 1, codes[n], Committed))

IdleCall == [pc |-> "get", level |-> 1, parent |-> NoParent, facet |-> NoId, err |-> "none",
             lookups_again |-> 0]

\* the call after a get_or_create returned row id: the next level, or the commit
Returned(c, id) ==
    IF c.level = 4 THEN [c EXCEPT !.pc = "commit", !.facet = id]
    ELSE [c EXCEPT !.pc = "get", !.level = @ + 1, !.parent = id]

hierarchyFixed == <<now, session, completions, card, reviewsDone, sessions, cards, progress, events,
                    users, tokens, cache, requests, unlocked, hints,
                    bus, jobRows, questionRows, memory>>

HierarchyInit ==
    /\ now = 0
    /\ last = Op("init", "none")
    /\ session = NoSession
    /\ completions = <<>>
    /\ card = NoCard
    /\ reviewsDone = 0
    /\ sessions = <<>>
    /\ cards = <<>>
    /\ progress = NoProgress
    /\ events = 0
    /\ procs = [p \in HierarchyCalls |-> IdleCall]
    /\ users = <<>>
    /\ tokens = {}
    /\ cache = <<>>
    /\ requests = <<>>
    /\ unlocked = <<>>
    /\ hints = <<>>
    /\ bus = <<>>
    /\ jobRows = <<>>
    /\ questionRows = <<>>
    /\ \E n \in 0..4 : hierarchy = StoredHierarchy(HierarchyCodes, n)
    /\ memory = <<>>

\* get_or_create: self.get(**kwargs)
HierarchyGet(p) ==
    /\ procs[p].pc = "get"
    /\ LET c == procs[p]
           found == find_rows(hierarchy, p, c.level, c.parent, HierarchyCodes[c.level])
       IN  procs' = [procs EXCEPT ![p] = IF found # {} THEN Returned(c, CHOOSE i \in found : TRUE)
                                         ELSE [c EXCEPT !.pc = "create"]]
    /\ last' = Op("hierarchy_get", "none")
    /\ UNCHANGED <<hierarchy, hierarchyFixed>>

\* get_or_create: self.create(**params) in a savepoint; on IntegrityError the
\* savepoint is rolled back and the row is looked up again
HierarchyCreate(p) ==
    /\ procs[p].pc = "create"
    /\ LET c == procs[p]
           r == insert_row(hierarchy, p, c.level, c.parent, HierarchyCodes[c.level])
       IN  /\ ~r.wait
           /\ hierarchy' = r.rows
           /\ procs' = [procs EXCEPT ![p] = IF r.err = "none" THEN Returned(c, r.id)
                                             ELSE [c EXCEPT !.pc = "get_again",
                                                            !.lookups_again = @ + 1]]
           /\ last' = Op("hierarchy_create", r.err)
    /\ UNCHANGED hierarchyFixed

\* get_or_create after IntegrityError: self.get(**kwargs), or the error raised again
HierarchyGetAgain(p) ==
    /\ procs[p].pc = "get_again"
    /\ LET c == procs[p]
           found == find_rows(hierarchy, p, c.level, c.parent, HierarchyCodes[c.level])
       IN  /\ procs' = [procs EXCEPT ![p] = IF found # {} THEN Returned(c, CHOOSE i \in found : TRUE)
                                             ELSE [c EXCEPT !.pc = "failed", !.err = "IntegrityError"]]
           /\ last' = Op("hierarchy_get_again", procs'[p].err)
    /\ UNCHANGED <<hierarchy, hierarchyFixed>>

\* the end of `with transaction.atomic()`: the rows of the call are committed
HierarchyCommit(p) ==
    /\ procs[p].pc = "commit"
    /\ hierarchy' = [i \in DOMAIN hierarchy |->
                        IF hierarchy[i].tx = p THEN [hierarchy[i] EXCEPT !.tx = Committed]
                        ELSE hierarchy[i]]
    /\ procs' = [procs EXCEPT ![p].pc = "done"]
    /\ last' = Op("ensure_hierarchy", "none")
    /\ UNCHANGED hierarchyFixed

HierarchyNext ==
    \/ \E p \in HierarchyCalls : HierarchyGet(p)
    \/ \E p \in HierarchyCalls : HierarchyCreate(p)
    \/ \E p \in HierarchyCalls : HierarchyGetAgain(p)
    \/ \E p \in HierarchyCalls : HierarchyCommit(p)

HierarchySpec == HierarchyInit /\ [][HierarchyNext]_vars

(***************************************************************************)
(* Import specification: ImportQuestionsUseCase.execute and                *)
(* JsonQuestionImporter.import_file read a file of question items and      *)
(* store the ones whose external_id is new, creating the content hierarchy *)
(* on the way.  Files of the same items are imported any number of times   *)
(* through either path.                                                    *)
(***************************************************************************)
MaxFileItems == 2
MaxImports == 3
MinIdParts == 4

\* a question item of a file: its id, the number of parts of the id between
\* '__', its type and whether it has an options field
Item(id, parts, type, options) == [id |-> id, id_parts |-> parts, type |-> type, has_options |-> options]

ItemTheory == Item("backend__api__protocols__graphql_theory_000001", 4, "theory", FALSE)
ItemPlainId == Item("graphql_theory_000002", 1, "theory", FALSE)
ItemMcqWithoutOptions == Item("backend__api__protocols__graphql_mcq_000003", 4, "mcq", FALSE)
Items == {ItemTheory, ItemPlainId, ItemMcqWithoutOptions}

Files == UNION {[1..n -> Items] : n \in 1..MaxFileItems}

QuestionRow(id, facet) == [external_id |-> id, facet_id |-> facet]

\* QuestionRepository.get_by_external_id(...) is not None
item_exists(rows, item) == \E i \in DOMAIN rows : rows[i].external_id = item.id

\* QuestionMapper.from_import_data and Question.validate raise nothing
question_validates(item) == item.type = "mcq" => item.has_options

\* JsonQuestionImporter.validate_item returns no errors
validate_item(item) ==
    /\ item.type = "mcq" => item.has_options
    /\ item.id_parts >= MinIdParts

NoCounts == [imported |-> 0, skipped |-> 0, failed |-> 0]

\* the loop of ImportQuestionsUseCase.execute over the items
RECURSIVE import_items(_, _, _, _, _)
import_items(items, rows, counts, facet, dry_run) ==
    IF items = <<>> THEN [rows |-> rows, counts |-> counts]
    ELSE LET item == Head(items)
         IN  IF item_exists(rows, item)
             THEN import_items(Tail(items), rows, [counts EXCEPT !.skipped = @ + 1], facet, dry_run)
             ELSE IF ~question_validates(item)
             THEN import_items(Tail(items), rows, [counts EXCEPT !.failed = @ + 1], facet, dry_run)
             ELSE import_items(Tail(items),
                               IF dry_run THEN rows ELSE Append(rows, QuestionRow(item.id, facet)),
                               [counts EXCEPT !.imported = @ + 1], facet, dry_run)

\* BaseImporter._process_batch over the items of the file; import_item ensures
\* the hierarchy the item id names and saves the question
RECURSIVE process_batch(_, _, _, _, _)
process_batch(items, rows, tree, counts, dry_run) ==
    IF items = <<>> THEN [rows |-> rows, tree |-> tree, counts |-> counts]
    ELSE LET item == Head(items)
         IN  IF ~validate_item(item)
             THEN process_batch(Tail(items), rows, tree, [counts EXCEPT !.failed = @ + 1], dry_run)
             ELSE IF item_exists(rows, item)
             THEN process_batch(Tail(items), rows, tree, [counts EXCEPT !.skipped = @ + 1], dry_run)
             ELSE IF dry_run
             THEN process_batch(Tail(items), rows, tree, [counts EXCEPT !.imported = @ + 1], dry_run)
             ELSE LET facet == ensure_hierarchy(tree, HierarchyCodes)
                  IN  process_batch(Tail(items), Append(rows, QuestionRow(item.id, facet.id)),
                                    facet.rows, [counts EXCEPT !.imported = @ + 1], dry_run)

ImportReq(name, err, counts, file, rows, after) ==
    [op |-> name, err |-> err, imported |-> counts.imported, skipped |-> counts.skipped,
     failed |-> counts.failed, items |-> Len(file),
     all_existed |-> \A i \in DOMAIN file : item_exists(rows, file[i]),
     unchanged |-> after = rows]

importFixed == <<now, session, completions, card, reviewsDone, useCaseVars,
                 users, tokens, cache, requests, unlocked, hints,
                 bus, jobRows, memory>>

ImportInit ==
    /\ now = 0
    /\ last = Op("init", "none")
    /\ session = NoSession
    /\ completions = <<>>
    /\ card = NoCard
    /\ reviewsDone = 0
    /\ EmptyDatabase
    /\ users = <<>>
    /\ tokens = {}
    /\ cache = <<>>
    /\ requests = <<>>
    /\ unlocked = <<>>
    /\ hints = <<>>
    /\ bus = <<>>
    /\ jobRows = <<>>
    /\ questionRows = [questions |-> <<>>, imports |-> 0]
    /\ hierarchy = <<>>
    /\ memory = <<>>

\* ImportQuestionsUseCase.execute on a file named by the four codes: when not a
\* dry run, question_repo.count(facet_id=...) is called after the loop, a keyword
\* DjangoRepository.count does not take
ImportQuestions ==
    /\ questionRows.imports < MaxImports
    /\ \E file \in Files, dry_run \in BOOLEAN :
           LET facet == ensure_hierarchy(hierarchy, HierarchyCodes)
               r == import_items(file, questionRows.questions, NoCounts, facet.id, dry_run)
           IN  /\ hierarchy' = facet.rows
               /\ questionRows' = [questions |-> r.rows, imports |-> questionRows.imports + 1]
               /\ last' = ImportReq("import_questions",
                                    IF dry_run THEN "none" ELSE "TypeError",
                                    IF dry_run THEN r.counts ELSE NoCounts,
                                    file, questionRows.questions, r.rows)
    /\ UNCHANGED importFixed

\* JsonQuestionImporter.import_file: the file is one batch
ImportFile ==
    /\ questionRows.imports < MaxImports
    /\ \E file \in Files, dry_run \in BOOLEAN :
           LET r == process_batch(file, questionRows.questions, hierarchy, NoCounts, dry_run)
           IN  /\ hierarchy' = r.tree
               /\ questionRows' = [questions |-> r.rows, imports |-> questionRows.imports + 1]
               /\ last' = ImportReq("import_file", "none", r.counts, file,
                                    questionRows.questions, r.rows)
    /\ UNCHANGED importFixed

ImportNext ==
    \/ ImportQuestions
    \/ ImportFile

ImportSpec == ImportInit /\ [][ImportNext]_vars

(***************************************************************************)
(* Memory cache specification: one MemoryCache of max_size entries.  The   *)
(* OrderedDict _cache is a sequence of entries from its first key to its   *)
(* last; every entry carries its expiry of _expire_times and remembers the *)
(* call that inserted it and the call that last put it at the end.  Every  *)
(* method runs under the lock, so each call is one step.                   *)
(***************************************************************************)
max_size == 2
default_ttl == 300
MaxCacheCalls == 4
MemoryTickMinutes == 3
MaxMemoryMinutes == 6

CacheKeys == {"k1", "k2", "k3"}
CacheValues == {"v1", "v2"}
\* ttl arguments: None or 0 (both take the default), and a short one
CacheTtls == {0, 100}

\* time.time(), in seconds
time_time == now * SecondsPerMinute

CacheEntry(key, value, expires, inserted, used) ==
    [key |-> key, value |-> value, expires |-> expires,
     inserted |-> inserted, used |-> used]

Range(s) == {s[i] : i \in DOMAIN s}

NewMemoryCache == [cache |-> <<>>, calls |-> 0]

\* the position of key in the OrderedDict, 0 when absent
position(entries, key) ==
    IF \E i \in 1..Len(entries) : entries[i].key = key
    THEN CHOOSE i \in 1..Len(entries) : entries[i].key = key
    ELSE 0

without(entries, i) == SubSeq(entries, 1, i - 1) \o SubSeq(entries, i + 1, Len(entries))

\* next(iter(self._cache)) replaced by the last key
newest_key(entries) == Len(entries)

\* next(iter(self._cache)): the position of the key that set removes
oldest_key(entries) == 1

\* the loop of MemoryCache.set that removes entries while at capacity
RECURSIVE evict(_)
evict(entries) ==
    IF Len(entries) >= max_size
    THEN evict(without(entries, oldest_key(entries)))
    ELSE entries

\* self._cache[key] = value followed by the expiry: a new key goes to the end,
\* a key that is present keeps its place
store(entries, key, value, ttl, call) ==
    LET expire_ttl == IF ttl # 0 THEN ttl ELSE default_ttl
        expires == time_time + expire_ttl
        i == position(entries, key)
    IN  IF i = 0
        THEN Append(entries, CacheEntry(key, value, expires, call, call))
        ELSE [entries EXCEPT ![i].value = value, ![i].expires = expires]

MemoryReq(name, key, before, after, result) ==
    [op |-> name, err |-> "none", key |-> key, before |-> before,
     removed |-> {e \in Range(before) :
                     \A f \in Range(after) : f.key # e.key \/ f.inserted # e.inserted},
     result |-> result]

memoryFixed == <<session, completions, card, reviewsDone, useCaseVars,
                 users, tokens, cache, requests, unlocked, hints,
                 bus, jobRows, questionRows, hierarchy>>

MemoryInit ==
    /\ now = 0
    /\ last = Op("init", "none")
    /\ session = NoSession
    /\ completions = <<>>
    /\ card = NoCard
    /\ reviewsDone = 0
    /\ EmptyDatabase
    /\ users = <<>>
    /\ tokens = {}
    /\ cache = <<>>
    /\ requests = <<>>
    /\ unlocked = <<>>
    /\ hints = <<>>
    /\ bus = <<>>
    /\ jobRows = <<>>
    /\ questionRows = <<>>
    /\ hierarchy = <<>>
    /\ memory = NewMemoryCache

\* MemoryCache.set
MemorySet ==
    /\ memory.calls < MaxCacheCalls
    /\ \E key \in CacheKeys, value \in CacheValues, ttl \in CacheTtls :
           LET call == memory.calls + 1
               after == store(evict(memory.cache), key, value, ttl, call)
           IN  /\ memory' = [cache |-> after, calls |-> call]
               /\ last' = MemoryReq("set", key, memory.cache, after, "True")
    /\ UNCHANGED <<now, memoryFixed>>

\* MemoryCache.get
MemoryGet ==
    /\ memory.calls < MaxCacheCalls
    /\ \E key \in CacheKeys :
           LET call == memory.calls + 1
               i == position(memory.cache, key)
               expired == i # 0 /\ time_time > memory.cache[i].expires
               after == IF i = 0 THEN memory.cache
                        ELSE IF expired THEN without(memory.cache, i)
                        ELSE Append(without(memory.cache, i),
                                    [memory.cache[i] EXCEPT !.used = call])
               result == IF i = 0 \/ expired THEN "None" ELSE memory.cache[i].value
           IN  /\ memory' = [cache |-> after, calls |-> call]
               /\ last' = MemoryReq("get", key, memory.cache, after, result)
    /\ UNCHANGED <<now, memoryFixed>>

\* MemoryCache.delete
MemoryDelete ==
    /\ memory.calls < MaxCacheCalls
    /\ \E key \in CacheKeys :
           LET i == position(memory.cache, key)
               after == IF i = 0 THEN memory.cache ELSE without(memory.cache, i)
           IN  /\ memory' = [cache |-> after, calls |-> memory.calls + 1]
               /\ last' = MemoryReq("delete", key, memory.cache, after,
                                    IF i = 0 THEN "False" ELSE "True")
    /\ UNCHANGED <<now, memoryFixed>>

\* MemoryCache.clear
MemoryClear ==
    /\ memory.calls < MaxCacheCalls
    /\ memory' = [cache |-> <<>>, calls |-> memory.calls + 1]
    /\ last' = MemoryReq("clear", "none", memory.cache, <<>>, "True")
    /\ UNCHANGED <<now, memoryFixed>>

MemoryTick ==
    /\ now + MemoryTickMinutes <= MaxMemoryMinutes
    /\ now' = now + MemoryTickMinutes
    /\ last' = Op("tick", "none")
    /\ UNCHANGED <<memory, memoryFixed>>

MemoryNext ==
    \/ MemorySet
    \/ MemoryGet
    \/ MemoryDelete
    \/ MemoryClear
    \/ MemoryTick

MemorySpec == MemoryInit /\ [][MemoryNext]_vars

(***************************************************************************)
(* C1: every status change of a LearningSession is one of active->paused,  *)
(* paused->active, active->completed, active->abandoned; a paused session  *)
(* can only be resumed and a completed or abandoned one never changes      *)
(* status again.                                                           *)
(***************************************************************************)
AllowedStatusChanges ==
    { <<"active", "paused">>, <<"paused", "active">>,
      <<"active", "completed">>, <<"active", "abandoned">> }

C1_OnlyNamedStatusChanges ==
    [][ session'.status # session.status
            => <<session.status, session'.status>> \in AllowedStatusChanges ]_vars

(***************************************************************************)
(* C2: a session enters completed at most once.  An answer_question that   *)
(* returns with should_complete() true has moved the session to completed  *)
(* in that same call, and complete() on a completed session raises         *)
(* invalid-state-transition and leaves the session as it was.              *)
(***************************************************************************)
C2_CompletedAtMostOnce ==
    [][ /\ Len(completions') <= 1
        /\ (last'.op = "answer_question" /\ last'.err = "none"
                /\ should_complete(session', now'))
            => (session'.status = "completed" /\ completions' = <<"answer_question">>)
        /\ (session.status = "completed" /\ last'.op = "complete")
            => (last'.err = "InvalidStateTransition" /\ session' = session) ]_vars

\* answer_question completed the session, and a later complete() was refused
C2_Witness ==
    /\ completions = <<"answer_question">>
    /\ session.status = "completed"
    /\ last = Op("complete", "InvalidStateTransition")

(***************************************************************************)
(* C3: at every moment a user has at most one session with status active,  *)
(* under any interleaving of StartLearningSession executions for that      *)
(* user.                                                                   *)
(***************************************************************************)
C3_AtMostOneActiveSession ==
    \A u \in Users : Cardinality(ActiveSessionIds(sessions, u)) <= 1

(***************************************************************************)
(* C4: for an active, non-expired session whose completion condition does  *)
(* not hold, GetNextQuestion serves the head of the queue when the queue   *)
(* is non-empty; with an empty queue it serves the question of the next    *)
(* due card (enqueuing it), and when there is no such card an unanswered   *)
(* question of the facet; the question served is marked in flight.         *)
(***************************************************************************)
C4_Applies ==
    /\ last'.op = "get_next_question"
    /\ last'.session_id \in DOMAIN sessions
    /\ sessions[last'.session_id].user_id = last'.user
    /\ is_active(sessions[last'.session_id])
    /\ ~is_expired(sessions[last'.session_id], now)
    /\ ~should_complete(sessions[last'.session_id], now)
    /\ last'.facet_id # NoFacet
    /\ last'.prefer_review

C4_ServesNextQuestion ==
    [][C4_Applies =>
        LET s == sessions[last'.session_id]
            after == sessions'[last'.session_id]
            due == get_next_card(cards, last'.user, DailyNewCardLimit, now)
        IN  /\ last'.err = "none"
            /\ last'.served # NoQuestion
            /\ after.current_question_id = last'.served
            /\ IF Len(s.question_queue) > 0
               THEN last'.served = Head(s.question_queue)
               ELSE /\ InSeq(last'.served, after.question_queue)
                    /\ IF due # {}
                       THEN \E i \in due : cards[i].question_id = last'.served
                       ELSE last'.served
                               \in get_unanswered_by_user(last'.user, last'.facet_id)
    ]_vars

(***************************************************************************)
(* C5: SubmitAnswer on a session idle for more than 30 minutes (expired)   *)
(* is rejected and leaves the session, the card and the progress           *)
(* unchanged.                                                              *)
(***************************************************************************)
C5_Applies ==
    /\ last'.op = "submit_answer"
    /\ last'.session_id \in DOMAIN sessions
    /\ sessions[last'.session_id].user_id = last'.user
    /\ is_expired(sessions[last'.session_id], now)

C5_ExpiredSessionRejectsAnswer ==
    [][C5_Applies =>
        /\ last'.err # "none"
        /\ sessions' = sessions
        /\ cards' = cards
        /\ progress' = progress
    ]_vars

(***************************************************************************)
(* C6: for every (user, question) pair at most one SpacedRepetitionCard    *)
(* exists, and a SubmitAnswer that got past the card step has left the     *)
(* card of its pair in the table, also when two SubmitAnswer executions    *)
(* and the daily card-generation job run concurrently.                     *)
(***************************************************************************)
C6_OneCardPerUserQuestion ==
    /\ \A u \in Users, q \in Questions : Cardinality(CardIds(cards, u, q)) <= 1
    /\ \A p \in SubmitProcs :
           procs[p].pc \in {"review", "record"}
               \/ (procs[p].pc = "done" /\ procs[p].err = "none")
           => CardIds(cards, "u1", procs[p].question_id) # {}

\* both submissions found no card for the same question and one lost the insert,
\* and the job lost its insert to a submission too
C6_Witness ==
    /\ \E p, r \in SubmitProcs :
           /\ p # r
           /\ procs[p].question_id = procs[r].question_id
           /\ procs[p].pc = "done" /\ procs[p].err = "IntegrityError"
           /\ procs[r].pc = "done" /\ procs[r].err = "none"
           /\ Cardinality(CardIds(cards, "u1", procs[p].question_id)) = 1
    /\ procs[JobProc].pc = "done"
    /\ procs[JobProc].err = "IntegrityError"

(***************************************************************************)
(* C7: every state change of a SpacedRepetitionCard is new->learning,      *)
(* learning->review, review->relearning, relearning->review, entry into    *)
(* suspended or buried from a review-eligible state, or exit from          *)
(* suspended by unsuspend; nothing else takes a card out of suspended.     *)
(***************************************************************************)
ReviewEligibleStates == {"new", "learning", "review", "relearning"}

NamedCardStateChanges ==
    { <<"new", "learning">>, <<"learning", "review">>,
      <<"review", "relearning">>, <<"relearning", "review">> }

C7_OnlyNamedCardStateChanges ==
    [][ card'.state # card.state
            => \/ <<card.state, card'.state>> \in NamedCardStateChanges
               \/ (card'.state \in {"suspended", "buried"}
                      /\ card.state \in ReviewEligibleStates)
               \/ (card.state = "suspended" /\ last'.op = "unsuspend") ]_vars

(***************************************************************************)
(* C8: a card whose can_review() is false (suspended, buried, or not yet   *)
(* due) is never reviewed: every operation that would apply a review to it *)
(* fails with a business-rule violation and leaves the card unchanged.     *)
(***************************************************************************)
C8_TargetCards ==
    IF last'.op = "review_card"
    THEN {last'.card_id} \cap DOMAIN cards
    ELSE IF last'.op = "submit_answer" /\ last'.session_id \in DOMAIN sessions
         THEN IF /\ sessions[last'.session_id].user_id = last'.user
                 /\ is_active(sessions[last'.session_id])
                 /\ sessions[last'.session_id].current_question_id # NoQuestion
              THEN CardIds(cards, last'.user, last'.question_id)
              ELSE {}
    ELSE {}

C8_UnreviewableCardNeverReviewed ==
    [][\A i \in C8_TargetCards :
          ~can_review(cards[i], now) =>
              /\ last'.err = "BusinessRuleViolation"
              /\ cards'[i] = cards[i]
    ]_vars

(***************************************************************************)
(* C9: a learning card rated Easy is, after that review, in state review   *)
(* with interval_days equal to the configured easy_interval, whatever its  *)
(* learning_step was.                                                      *)
(***************************************************************************)
C9_EasyGraduatesLearningCard ==
    [][ (card.state = "learning" /\ last'.op \in {"review", "review_card"}
            /\ last'.err = "none" /\ last'.rating = "easy")
        => (card'.state = "review"
              /\ card'.interval_days = card.review_config.easy_interval) ]_vars

(***************************************************************************)
(* C10: the ease factor of a card stays within [1.3, 5.0] after any        *)
(* sequence of reviews and of runs of the overdue-card job.                *)
(***************************************************************************)
C10_EaseWithinBounds ==
    /\ card.ease_factor >= MinEase
    /\ card.ease_factor <= MaxEase

\* a card at ease 1.35 was rated VeryHard and its ease stopped at 1.3
C10_Witness ==
    /\ last.op \in {"review", "review_card"}
    /\ last.err = "none"
    /\ last.rating = "very_hard"
    /\ last.ease_before = 135
    /\ card.ease_factor = MinEase

(***************************************************************************)
(* C11: get_next_card hands out a new card only while fewer than           *)
(* daily_limit of the user's cards have had their first and only review    *)
(* since local midnight; once daily_limit new cards were introduced today, *)
(* no call that day returns a new card, whatever the ratings were.         *)
(***************************************************************************)
IntroducedToday(rows, u, t) ==
    {i \in DOMAIN rows :
        /\ rows[i].user_id = u
        /\ rows[i].total_reviews = 1
        /\ rows[i].last_reviewed_at # NoTime
        /\ rows[i].last_reviewed_at >= TodayStart(t)}

C11_DailyNewCardLimit ==
    (/\ last.op = "get_next_card"
     /\ Cardinality(IntroducedToday(cards, "u1", now)) >= last.daily_limit)
    => (last.card_id = NoId \/ cards[last.card_id].state # "new")

(***************************************************************************)
(* C12: tokens are issued only to users whose status is active: no login   *)
(* and no token refresh returns a token for a pending, suspended, banned   *)
(* or deleted user, also when the status changed after the refresh token   *)
(* was issued.                                                             *)
(***************************************************************************)
TokenIssuingOps == {"login", "rest_login", "refresh", "rest_refresh"}

C12_TokensOnlyToActiveUsers ==
    last.op \in TokenIssuingOps /\ last.err = "none" => users[last.user].status = "active"

(***************************************************************************)
(* C13: a request on a mandatory-auth route that carries an unexpired      *)
(* token of a user who is now suspended, banned or deleted is rejected.    *)
(***************************************************************************)
C13_IneligibleCallerRejected ==
    last.op \in {"api_request", "api_request_user"}
        /\ users[last.user].status \in {"suspended", "banned", "deleted"}
        => last.err # "none"

(***************************************************************************)
(* C14: a token is honoured only for the purpose its type names: API       *)
(* authentication takes access tokens, refresh takes refresh tokens,       *)
(* password-reset confirmation takes password_reset tokens and email       *)
(* verification takes email_verification tokens.                           *)
(***************************************************************************)
PurposeOf(op) ==
    CASE op \in {"api_request", "api_request_user"} -> "access"
      [] op \in {"refresh", "rest_refresh"} -> "refresh"
      [] op = "confirm_reset" -> "password_reset"
      [] op = "verify_email" -> "email_verification"
      [] OTHER -> "none"

C14_TokenHonouredOnlyForItsType ==
    PurposeOf(last.op) # "none" /\ last.err = "none" => last.token.type = PurposeOf(last.op)

(***************************************************************************)
(* C15: a learning request (get next question, submit answer, request      *)
(* hint, end session, review card) addressed to a session or card that     *)
(* another user owns ends with not-found and changes no row.               *)
(***************************************************************************)
SessionRequests == {"get_next_question", "submit_answer", "request_hint", "end_session"}

C15_AddressedToForeignRow(req) ==
    \/ /\ req.op \in SessionRequests
       /\ req.session_id \in DOMAIN sessions
       /\ sessions[req.session_id].user_id # req.user
    \/ /\ req.op = "review_card"
       /\ req.card_id \in DOMAIN cards
       /\ cards[req.card_id].user_id # req.user

C15_CrossUserAccessNotFound ==
    [][C15_AddressedToForeignRow(last')
          => /\ last'.err = "EntityNotFound"
             /\ UNCHANGED <<sessions, cards, progress, events, hints>>]_vars

C15_Witness ==
    /\ last.op = "review_card"
    /\ last.user = "u2"
    /\ last.card_id \in DOMAIN cards
    /\ cards[last.card_id].user_id = "u1"
    /\ last.err = "EntityNotFound"
    /\ \E i \in DOMAIN sessions : sessions[i].user_id = "u1"

(***************************************************************************)
(* C16: once every write to a row has completed (a repository save with    *)
(* its cache invalidation, or a job's update), a get_by_id answered from   *)
(* the cache returns the row as the database holds it, never an earlier    *)
(* state.                                                                  *)
(***************************************************************************)
C16_NoWriteInFlight == \A p \in DOMAIN procs : procs[p].pc # "invalidate"

C16_NoStaleReadAfterWrite ==
    last.op = "get_by_id" /\ last.path = "cache" /\ C16_NoWriteInFlight
        => last.result = sessions[1]

(***************************************************************************)
(* C17: for each client ip at most 60 non-exempt requests are admitted in  *)
(* any 60-second window, and a request refused by the limiter gets status  *)
(* 429 with Retry-After and is not passed on to the application.           *)
(***************************************************************************)
C17_AdmittedInWindow(ip, start) ==
    Cardinality({i \in DOMAIN requests[ip] :
        requests[ip][i] > start /\ requests[ip][i] <= start + WindowSeconds})

\* the windows (start, start + 60] that begin right before an admitted request:
\* every other window admits no more than one of these
C17_WindowStarts(ip) == {requests[ip][i] - 1 : i \in DOMAIN requests[ip]}

C17_AtMostSixtyPerWindow ==
    /\ \A ip \in DOMAIN requests : \A start \in C17_WindowStarts(ip) :
           C17_AdmittedInWindow(ip, start) <= RequestsPerMinute
    /\ last.op = "request" /\ last.path # "/health"
           => \/ last.status = 200 /\ last.passed_on
              \/ /\ last.status = 429
                 /\ last.retry_after = RetryAfterSeconds
                 /\ ~last.passed_on
                 /\ C17_AdmittedInWindow(last.client_ip, now - WindowSeconds)
                        = RequestsPerMinute

C17_Witness ==
    /\ last.op = "request"
    /\ last.status = 429
    /\ now = MaxRateTime
    /\ Len(requests[last.client_ip]) > RequestsPerMinute

(***************************************************************************)
(* C18: check_achievements unlocks an achievement only if every condition  *)
(* of its criteria is satisfied by the user's progress and the triggering  *)
(* event, also when the check runs without a triggering event.             *)
(***************************************************************************)
C18_Achievement(name) == CHOOSE a \in {ACHIEVEMENTS[i] : i \in DOMAIN ACHIEVEMENTS} : a.name = name

\* every condition the criteria name holds; a condition on the session or the
\* time of study needs the event that shows it
C18_CriteriaSatisfied(c, p, ev, hour) ==
    /\ Has(c, "questions_answered") => p.total_questions_answered >= c.questions_answered
    /\ Has(c, "streak_days") => p.max_streak >= c.streak_days
    /\ Has(c, "session_accuracy") =>
           /\ ev.event_type = "session_completed"
           /\ ev.accuracy_rate >= c.session_accuracy
           /\ ev.total_questions >= c.min_questions
    /\ Has(c, "questions_in_time") =>
           /\ ev.event_type = "session_completed"
           /\ ev.total_questions >= c.questions_in_time.count
           /\ ev.total_time_seconds <= c.questions_in_time.minutes * 60
    /\ Has(c, "study_time") =>
           /\ ev.event_type \in {"session_started", "question_answered"}
           /\ c.study_time = "night" => 0 <= hour /\ hour < 5
           /\ c.study_time = "early" => 4 <= hour /\ hour < 6
    /\ Has(c, "facets_mastered") => p.mastered_count >= c.facets_mastered
    /\ Has(c, "topics_completed") => p.topics_completed >= c.topics_completed
    /\ Has(c, "unique_topics") => p.unique_topics >= c.unique_topics

C18_UnlockedOnlyIfCriteriaMet ==
    last.op = "check_achievements"
        => \A i \in DOMAIN last.unlocked :
               C18_CriteriaSatisfied(C18_Achievement(last.unlocked[i]).criteria,
                                     last.progress, last.trigger_event, last.hour)

(***************************************************************************)
(* C19: an achievement is unlocked at most once per user: a                *)
(* check_achievements run that starts when the stored unlocked list has    *)
(* already held a name does not append that name or add its points again.  *)
(***************************************************************************)
C19_UnlockedAtMostOnce ==
    last.op = "check_achievements"
        => \A i \in DOMAIN last.unlocked : last.unlocked[i] \notin last.stored_before_run

(***************************************************************************)
(* C20: hints are taken in order: a request for hint level L on a question *)
(* in a session succeeds only if the levels 1..L-1 have been requested     *)
(* there before and L has not; a rejected request records no hint event.   *)
(***************************************************************************)
C20_LevelsRequestedBefore ==
    {hints[i].hint_level : i \in {j \in 1..(Len(hints) - 1) :
        /\ hints[j].session_id = last.session_id
        /\ hints[j].question_id = last.question_id
        /\ hints[j].user_id = last.user}}

C20_HintsTakenInOrder ==
    last.op = "request_hint" /\ last.err = "none"
        => C20_LevelsRequestedBefore = 1..(last.hint_level - 1)

(***************************************************************************)
(* C21: when a subscriber of a published event raises, every other         *)
(* subscriber of that event still runs to completion and publish returns   *)
(* normally: publish never raises, and it returns only after every task    *)
(* it started has finished.                                                *)
(***************************************************************************)
C21_FailedSubscriberIsolated ==
    /\ bus.publish # "raised"
    /\ bus.publish = "returned" =>
          \A i \in DOMAIN bus.tasks : bus.tasks[i].state \in {"completed", "failed"}

C21_Witness ==
    /\ bus.publish = "returned"
    /\ last.op = "publish_return"
    /\ \E i, j \in DOMAIN bus.tasks :
          /\ bus.tasks[i].state = "failed"
          /\ bus.tasks[j].state = "completed"

C23_JobsIdempotent ==
    [][(/\ last.op \in JobNames
        /\ last'.op = last.op
        /\ jobRows'.runs = jobRows.runs + 1)
           => /\ jobRows'.progress = jobRows.progress
              /\ cards' = cards]_vars

(***************************************************************************)
(* C24: an import of a file whose every item's external_id is already      *)
(* stored returns imported = 0, skipped = the number of items, failed = 0  *)
(* and leaves the question rows as they were.                              *)
(***************************************************************************)
C24_ReimportSkipsEveryItem ==
    last.op \in {"import_questions", "import_file"} /\ last.all_existed
        => /\ last.err = "none"
           /\ last.imported = 0
           /\ last.skipped = last.items
           /\ last.failed = 0
           /\ last.unchanged

(***************************************************************************)
(* C25: two ensure_hierarchy calls with the same topic, subtopic, leaf and *)
(* facet codes, run one after the other or overlapping, return the same    *)
(* facet id, neither fails, and each of the four levels holds exactly one  *)
(* row with its code.                                                      *)
(***************************************************************************)
C25_RowsWithCode(level) ==
    {i \in DOMAIN hierarchy : hierarchy[i].level = level /\ hierarchy[i].code = HierarchyCodes[level]}

C25_EnsureHierarchyIdempotent ==
    /\ \A p \in HierarchyCalls : procs[p].pc # "failed"
    /\ \A level \in Levels : Cardinality(C25_RowsWithCode(level)) <= 1
    /\ (\A p \in HierarchyCalls : procs[p].pc = "done")
          => /\ procs["call1"].facet = procs["call2"].facet
             /\ \A level \in Levels : Cardinality(C25_RowsWithCode(level)) = 1

\* both calls are done, and one of them lost the race for a row and looked it up again
C25_Witness ==
    /\ \A p \in HierarchyCalls : procs[p].pc = "done"
    /\ \E p \in HierarchyCalls : procs[p].lookups_again > 0
    /\ procs["call1"].facet = procs["call2"].facet

(***************************************************************************)
(* C26: SubmitAnswer applies an answer only to the question in flight: a   *)
(* submission that is accepted names the session's current_question_id,    *)
(* and one that names another question changes neither the session nor the *)
(* card rows.                                                              *)
(***************************************************************************)
C26_NamesOtherQuestion ==
    /\ last'.op = "submit_answer"
    /\ last'.session_id \in DOMAIN sessions
    /\ sessions[last'.session_id].user_id = last'.user
    /\ sessions[last'.session_id].current_question_id # last'.question_id

C26_AnswerOnlyForQuestionInFlight ==
    [][C26_NamesOtherQuestion =>
        /\ last'.err # "none"
        /\ sessions' = sessions
        /\ cards' = cards]_vars

(***************************************************************************)
(* C27: whichever use case moves a session into status completed, that     *)
(* step folds the session's answered-question count into the user's        *)
(* progress.                                                               *)
(***************************************************************************)
C27_Completing ==
    {i \in DOMAIN sessions : /\ sessions[i].status # "completed"
                             /\ sessions'[i].status = "completed"}

C27_CompletedSessionFoldedIntoProgress ==
    [][\A i \in C27_Completing :
          progress'.total_questions_answered =
              progress.total_questions_answered + sessions'[i].answered_count]_vars

(***************************************************************************)
(* C28: a newly registered user can become active: VerifyEmail accepts the *)
(* verification token that RegisterUser issued, and after it the user's    *)
(* email is verified and the user is no longer pending.                    *)
(***************************************************************************)
C28_RegistrationTokenVerifies ==
    last.op = "verify_email" /\ last.token.scheme = "uuid"
        => /\ last.err = "none"
           /\ users[last.user].email_verified
           /\ users[last.user].status # "pending"

(***************************************************************************)
(* C29: a password-reset token changes the password at most once: a        *)
(* confirm_reset that presents the token of the successful confirm_reset   *)
(* before it is rejected and leaves the stored password unchanged.         *)
(***************************************************************************)
C29_ResetTokenUsedOnce ==
    [][(/\ last.op = "confirm_reset"
        /\ last.err = "none"
        /\ last'.op = "confirm_reset"
        /\ last'.token = last.token)
           => /\ last'.err # "none"
              /\ users' = users]_vars

(***************************************************************************)
(* C30 as stated: whenever a set removes an entry other than the key being *)
(* set, the cache held max_size entries and the entry removed is the one   *)
(* inserted earliest among those present.                                  *)
(***************************************************************************)
C30_EvictsOldestInserted ==
    last.op = "set"
        => \A e \in last.removed :
              e.key # last.key
                  => /\ Len(last.before) = max_size
                     /\ \A f \in Range(last.before) : e.inserted <= f.inserted

(***************************************************************************)
(* C30 amended: whenever a set removes an entry other than the key being   *)
(* set, the cache held max_size entries and the entry removed is the least *)
(* recently used among those present: the one whose insertion or last      *)
(* successful get, whichever is later, is the earliest.                    *)
(***************************************************************************)
C30_EvictsLeastRecentlyUsed ==
    last.op = "set"
        => \A e \in last.removed :
              e.key # last.key
                  => /\ Len(last.before) = max_size
                     /\ \A f \in Range(last.before) : e.used <= f.used

\* a set at capacity removed an entry while an entry inserted before it, and read
\* since, stayed
C30_Witness ==
    /\ last.op = "set"
    /\ \E e \in last.removed :
          /\ e.key # last.key
          /\ \E f \in Range(last.before) : f.inserted < e.inserted /\ f.used > e.used

====
